---- MODULE Spec2Model ----
(***************************************************************************)
(* The chatbot of the healthcare-appointment backend: the conversation     *)
(* stage machine of POST /chat (api/routes/chat.py), the classification of *)
(* a general-chat message (repository/crud/chat.py), the time-slot query   *)
(* (repository/crud/timeslot.py) and the reminder queue drained by         *)
(* GET /chat/reminders.                                                    *)
(*                                                                         *)
(* Text is a sequence of one-character strings, so that trimming,          *)
(* lower-casing, substring search, int() and splitting are computed on the *)
(* characters as the Python code computes them.                            *)
(***************************************************************************)
EXTENDS Integers, Sequences, FiniteSets, TLC

(***************************************************************************)
(* str methods and builtins used by the handler                            *)
(***************************************************************************)
Whitespace == {" ", "\t", "\n", "\r"}

UpperCase == (* ABCDEFGHIJKLMNOPQRSTUVWXYZ *) <<"A","B","C","D","E","F","G","H","I","J","K","L","M","N","O","P","Q","R","S","T","U","V","W","X","Y","Z">>

LowerCase == (* abcdefghijklmnopqrstuvwxyz *) <<"a","b","c","d","e","f","g","h","i","j","k","l","m","n","o","p","q","r","s","t","u","v","w","x","y","z">>

Digits == (* 0123456789 *) <<"0","1","2","3","4","5","6","7","8","9">>

\* Python's None where the code returns it in place of a str.  It is a
\* sequence, like every str of the model, and equal to no str.
None == <<"None">>

\* The lower-case letter of every upper-case letter
ToLower ==
    [c \in {UpperCase[i] : i \in 1..Len(UpperCase)} |->
        LowerCase[CHOOSE i \in 1..Len(UpperCase) : UpperCase[i] = c]]

LowerChar(c) == IF c \in DOMAIN ToLower THEN ToLower[c] ELSE c

\* str.lower()
lower(s) == SubSeq([i \in 1..Len(s) |-> LowerChar(s[i])], 1, Len(s))

RECURSIVE lstrip(_)
lstrip(s) ==
    IF s # <<>> /\ Head(s) \in Whitespace THEN lstrip(Tail(s)) ELSE s

RECURSIVE rstrip(_)
rstrip(s) ==
    IF s # <<>> /\ s[Len(s)] \in Whitespace
    THEN rstrip(SubSeq(s, 1, Len(s) - 1))
    ELSE s

\* str.strip()
strip(s) == rstrip(lstrip(s))

\* `k in s` for two strings
Contains(k, s) ==
    \/ k = <<>>
    \/ \E i \in 1..(Len(s) - Len(k) + 1) :
           s[i] = k[1] /\ SubSeq(s, i, i + Len(k) - 1) = k

\* re.search(pattern, s) for the patterns of this program, which are all
\* literal text (no metacharacter occurs in them).
re_search(pattern, s) == Contains(pattern, s)

\* str.split(sep) for a one-character separator
RECURSIVE split(_, _)
split(s, sep) ==
    IF \E i \in 1..Len(s) : s[i] = sep
    THEN LET i == CHOOSE j \in 1..Len(s) :
                      s[j] = sep /\ \A k \in 1..(j - 1) : s[k] # sep
         IN  <<SubSeq(s, 1, i - 1)>> \o split(SubSeq(s, i + 1, Len(s)), sep)
    ELSE <<s>>

IsDigit(c) == \E i \in 1..Len(Digits) : Digits[i] = c

DigitValue(c) == (CHOOSE i \in 1..Len(Digits) : Digits[i] = c) - 1

RECURSIVE DecimalValue(_)
DecimalValue(s) ==
    IF s = <<>> THEN 0
    ELSE IF s[Len(s)] = "_" THEN DecimalValue(SubSeq(s, 1, Len(s) - 1))
    ELSE 10 * DecimalValue(SubSeq(s, 1, Len(s) - 1)) + DigitValue(s[Len(s)])

\* int(s) for a str: surrounding whitespace, one optional sign, then decimal
\* digits, single underscores allowed between digits.  ok = FALSE stands for
\* ValueError.
int(s) ==
    LET t == strip(s)
        signed == t # <<>> /\ t[1] \in {"+", "-"}
        body == IF signed THEN Tail(t) ELSE t
        wellFormed ==
            /\ body # <<>>
            /\ IsDigit(body[1])
            /\ IsDigit(body[Len(body)])
            /\ \A i \in 1..Len(body) : IsDigit(body[i]) \/ body[i] = "_"
            /\ \A i \in 1..(Len(body) - 1) : ~(body[i] = "_" /\ body[i + 1] = "_")
    IN  IF wellFormed
        THEN [ok |-> TRUE,
              value |-> IF signed /\ t[1] = "-"
                        THEN 0 - DecimalValue(body)
                        ELSE DecimalValue(body)]
        ELSE [ok |-> FALSE, value |-> 0]

(***************************************************************************)
(* repository/crud/chat.py: the keyword tables and the classification      *)
(***************************************************************************)
prescription_keywords == <<
    (* prescription *) <<"p","r","e","s","c","r","i","p","t","i","o","n">>,
    (* prescriptions *) <<"p","r","e","s","c","r","i","p","t","i","o","n","s">>,
    (* medication *) <<"m","e","d","i","c","a","t","i","o","n">>,
    (* medications *) <<"m","e","d","i","c","a","t","i","o","n","s">>,
    (* medicine *) <<"m","e","d","i","c","i","n","e">>,
    (* drug *) <<"d","r","u","g">>,
    (* pill *) <<"p","i","l","l">>,
    (* pills *) <<"p","i","l","l","s">>,
    (* refill *) <<"r","e","f","i","l","l">>,
    (* reminder *) <<"r","e","m","i","n","d","e","r">>,
    (* reminders *) <<"r","e","m","i","n","d","e","r","s">> >>

symptom_to_specialization == <<
    << (* chest pain *) <<"c","h","e","s","t"," ","p","a","i","n">>, (* cardiologist *) <<"c","a","r","d","i","o","l","o","g","i","s","t">> >>,
    << (* shortness of breath *) <<"s","h","o","r","t","n","e","s","s"," ","o","f"," ","b","r","e","a","t","h">>, (* cardiologist *) <<"c","a","r","d","i","o","l","o","g","i","s","t">> >>,
    << (* palpitations *) <<"p","a","l","p","i","t","a","t","i","o","n","s">>, (* cardiologist *) <<"c","a","r","d","i","o","l","o","g","i","s","t">> >>,
    << (* high blood pressure *) <<"h","i","g","h"," ","b","l","o","o","d"," ","p","r","e","s","s","u","r","e">>, (* cardiologist *) <<"c","a","r","d","i","o","l","o","g","i","s","t">> >>,
    << (* coughing *) <<"c","o","u","g","h","i","n","g">>, (* pulmonologist *) <<"p","u","l","m","o","n","o","l","o","g","i","s","t">> >>,
    << (* wheezing *) <<"w","h","e","e","z","i","n","g">>, (* pulmonologist *) <<"p","u","l","m","o","n","o","l","o","g","i","s","t">> >>,
    << (* asthma *) <<"a","s","t","h","m","a">>, (* pulmonologist *) <<"p","u","l","m","o","n","o","l","o","g","i","s","t">> >>,
    << (* bronchitis *) <<"b","r","o","n","c","h","i","t","i","s">>, (* pulmonologist *) <<"p","u","l","m","o","n","o","l","o","g","i","s","t">> >>,
    << (* severe headache *) <<"s","e","v","e","r","e"," ","h","e","a","d","a","c","h","e">>, (* neurologist *) <<"n","e","u","r","o","l","o","g","i","s","t">> >>,
    << (* migraines *) <<"m","i","g","r","a","i","n","e","s">>, (* neurologist *) <<"n","e","u","r","o","l","o","g","i","s","t">> >>,
    << (* numbness *) <<"n","u","m","b","n","e","s","s">>, (* neurologist *) <<"n","e","u","r","o","l","o","g","i","s","t">> >>,
    << (* seizures *) <<"s","e","i","z","u","r","e","s">>, (* neurologist *) <<"n","e","u","r","o","l","o","g","i","s","t">> >>,
    << (* memory loss *) <<"m","e","m","o","r","y"," ","l","o","s","s">>, (* neurologist *) <<"n","e","u","r","o","l","o","g","i","s","t">> >>,
    << (* tingling in extremities *) <<"t","i","n","g","l","i","n","g"," ","i","n"," ","e","x","t","r","e","m","i","t","i","e","s">>, (* neurologist *) <<"n","e","u","r","o","l","o","g","i","s","t">> >>,
    << (* abdominal pain *) <<"a","b","d","o","m","i","n","a","l"," ","p","a","i","n">>, (* gastroenterologist *) <<"g","a","s","t","r","o","e","n","t","e","r","o","l","o","g","i","s","t">> >>,
    << (* diarrhea *) <<"d","i","a","r","r","h","e","a">>, (* gastroenterologist *) <<"g","a","s","t","r","o","e","n","t","e","r","o","l","o","g","i","s","t">> >>,
    << (* constipation *) <<"c","o","n","s","t","i","p","a","t","i","o","n">>, (* gastroenterologist *) <<"g","a","s","t","r","o","e","n","t","e","r","o","l","o","g","i","s","t">> >>,
    << (* nausea *) <<"n","a","u","s","e","a">>, (* gastroenterologist *) <<"g","a","s","t","r","o","e","n","t","e","r","o","l","o","g","i","s","t">> >>,
    << (* heartburn *) <<"h","e","a","r","t","b","u","r","n">>, (* gastroenterologist *) <<"g","a","s","t","r","o","e","n","t","e","r","o","l","o","g","i","s","t">> >>,
    << (* vomiting *) <<"v","o","m","i","t","i","n","g">>, (* gastroenterologist *) <<"g","a","s","t","r","o","e","n","t","e","r","o","l","o","g","i","s","t">> >>,
    << (* bloody stools *) <<"b","l","o","o","d","y"," ","s","t","o","o","l","s">>, (* gastroenterologist *) <<"g","a","s","t","r","o","e","n","t","e","r","o","l","o","g","i","s","t">> >>,
    << (* skin rash *) <<"s","k","i","n"," ","r","a","s","h">>, (* dermatologist *) <<"d","e","r","m","a","t","o","l","o","g","i","s","t">> >>,
    << (* itching *) <<"i","t","c","h","i","n","g">>, (* dermatologist *) <<"d","e","r","m","a","t","o","l","o","g","i","s","t">> >>,
    << (* acne *) <<"a","c","n","e">>, (* dermatologist *) <<"d","e","r","m","a","t","o","l","o","g","i","s","t">> >>,
    << (* psoriasis *) <<"p","s","o","r","i","a","s","i","s">>, (* dermatologist *) <<"d","e","r","m","a","t","o","l","o","g","i","s","t">> >>,
    << (* eczema *) <<"e","c","z","e","m","a">>, (* dermatologist *) <<"d","e","r","m","a","t","o","l","o","g","i","s","t">> >>,
    << (* back pain *) <<"b","a","c","k"," ","p","a","i","n">>, (* orthopedist *) <<"o","r","t","h","o","p","e","d","i","s","t">> >>,
    << (* joint pain *) <<"j","o","i","n","t"," ","p","a","i","n">>, (* orthopedist *) <<"o","r","t","h","o","p","e","d","i","s","t">> >>,
    << (* bone fracture *) <<"b","o","n","e"," ","f","r","a","c","t","u","r","e">>, (* orthopedist *) <<"o","r","t","h","o","p","e","d","i","s","t">> >>,
    << (* arthritis *) <<"a","r","t","h","r","i","t","i","s">>, (* orthopedist *) <<"o","r","t","h","o","p","e","d","i","s","t">> >>,
    << (* blurry vision *) <<"b","l","u","r","r","y"," ","v","i","s","i","o","n">>, (* ophthalmologist *) <<"o","p","h","t","h","a","l","m","o","l","o","g","i","s","t">> >>,
    << (* eye pain *) <<"e","y","e"," ","p","a","i","n">>, (* ophthalmologist *) <<"o","p","h","t","h","a","l","m","o","l","o","g","i","s","t">> >>,
    << (* dry eyes *) <<"d","r","y"," ","e","y","e","s">>, (* ophthalmologist *) <<"o","p","h","t","h","a","l","m","o","l","o","g","i","s","t">> >>,
    << (* loss of vision *) <<"l","o","s","s"," ","o","f"," ","v","i","s","i","o","n">>, (* ophthalmologist *) <<"o","p","h","t","h","a","l","m","o","l","o","g","i","s","t">> >>,
    << (* red eyes *) <<"r","e","d"," ","e","y","e","s">>, (* ophthalmologist *) <<"o","p","h","t","h","a","l","m","o","l","o","g","i","s","t">> >>,
    << (* kidney pain *) <<"k","i","d","n","e","y"," ","p","a","i","n">>, (* nephrologist *) <<"n","e","p","h","r","o","l","o","g","i","s","t">> >>,
    << (* swollen legs *) <<"s","w","o","l","l","e","n"," ","l","e","g","s">>, (* nephrologist *) <<"n","e","p","h","r","o","l","o","g","i","s","t">> >>,
    << (* frequent urination *) <<"f","r","e","q","u","e","n","t"," ","u","r","i","n","a","t","i","o","n">>, (* nephrologist *) <<"n","e","p","h","r","o","l","o","g","i","s","t">> >>,
    << (* blood in urine *) <<"b","l","o","o","d"," ","i","n"," ","u","r","i","n","e">>, (* nephrologist *) <<"n","e","p","h","r","o","l","o","g","i","s","t">> >>,
    << (* diabetes *) <<"d","i","a","b","e","t","e","s">>, (* endocrinologist *) <<"e","n","d","o","c","r","i","n","o","l","o","g","i","s","t">> >>,
    << (* thyroid issues *) <<"t","h","y","r","o","i","d"," ","i","s","s","u","e","s">>, (* endocrinologist *) <<"e","n","d","o","c","r","i","n","o","l","o","g","i","s","t">> >>,
    << (* unexplained weight loss *) <<"u","n","e","x","p","l","a","i","n","e","d"," ","w","e","i","g","h","t"," ","l","o","s","s">>, (* endocrinologist *) <<"e","n","d","o","c","r","i","n","o","l","o","g","i","s","t">> >>,
    << (* anxiety *) <<"a","n","x","i","e","t","y">>, (* psychiatrist *) <<"p","s","y","c","h","i","a","t","r","i","s","t">> >>,
    << (* depression *) <<"d","e","p","r","e","s","s","i","o","n">>, (* psychiatrist *) <<"p","s","y","c","h","i","a","t","r","i","s","t">> >>,
    << (* panic attacks *) <<"p","a","n","i","c"," ","a","t","t","a","c","k","s">>, (* psychiatrist *) <<"p","s","y","c","h","i","a","t","r","i","s","t">> >>,
    << (* mood swings *) <<"m","o","o","d"," ","s","w","i","n","g","s">>, (* psychiatrist *) <<"p","s","y","c","h","i","a","t","r","i","s","t">> >>,
    << (* insomnia *) <<"i","n","s","o","m","n","i","a">>, (* psychiatrist *) <<"p","s","y","c","h","i","a","t","r","i","s","t">> >>,
    << (* pregnancy *) <<"p","r","e","g","n","a","n","c","y">>, (* gynecologist *) <<"g","y","n","e","c","o","l","o","g","i","s","t">> >>,
    << (* period pain *) <<"p","e","r","i","o","d"," ","p","a","i","n">>, (* gynecologist *) <<"g","y","n","e","c","o","l","o","g","i","s","t">> >>,
    << (* menstrual cramps *) <<"m","e","n","s","t","r","u","a","l"," ","c","r","a","m","p","s">>, (* gynecologist *) <<"g","y","n","e","c","o","l","o","g","i","s","t">> >>,
    << (* irregular periods *) <<"i","r","r","e","g","u","l","a","r"," ","p","e","r","i","o","d","s">>, (* gynecologist *) <<"g","y","n","e","c","o","l","o","g","i","s","t">> >>,
    << (* pelvic pain *) <<"p","e","l","v","i","c"," ","p","a","i","n">>, (* gynecologist *) <<"g","y","n","e","c","o","l","o","g","i","s","t">> >>,
    << (* urinary tract infection *) <<"u","r","i","n","a","r","y"," ","t","r","a","c","t"," ","i","n","f","e","c","t","i","o","n">>, (* urologist *) <<"u","r","o","l","o","g","i","s","t">> >>,
    << (* difficulty urinating *) <<"d","i","f","f","i","c","u","l","t","y"," ","u","r","i","n","a","t","i","n","g">>, (* urologist *) <<"u","r","o","l","o","g","i","s","t">> >>,
    << (* incontinence *) <<"i","n","c","o","n","t","i","n","e","n","c","e">>, (* urologist *) <<"u","r","o","l","o","g","i","s","t">> >>,
    << (* erectile dysfunction *) <<"e","r","e","c","t","i","l","e"," ","d","y","s","f","u","n","c","t","i","o","n">>, (* urologist *) <<"u","r","o","l","o","g","i","s","t">> >>,
    << (* joint swelling *) <<"j","o","i","n","t"," ","s","w","e","l","l","i","n","g">>, (* rheumatologist *) <<"r","h","e","u","m","a","t","o","l","o","g","i","s","t">> >>,
    << (* stiffness *) <<"s","t","i","f","f","n","e","s","s">>, (* rheumatologist *) <<"r","h","e","u","m","a","t","o","l","o","g","i","s","t">> >>,
    << (* autoimmune disease *) <<"a","u","t","o","i","m","m","u","n","e"," ","d","i","s","e","a","s","e">>, (* rheumatologist *) <<"r","h","e","u","m","a","t","o","l","o","g","i","s","t">> >>,
    << (* allergies *) <<"a","l","l","e","r","g","i","e","s">>, (* allergist *) <<"a","l","l","e","r","g","i","s","t">> >>,
    << (* hay fever *) <<"h","a","y"," ","f","e","v","e","r">>, (* allergist *) <<"a","l","l","e","r","g","i","s","t">> >>,
    << (* food allergy *) <<"f","o","o","d"," ","a","l","l","e","r","g","y">>, (* allergist *) <<"a","l","l","e","r","g","i","s","t">> >>,
    << (* sinusitis *) <<"s","i","n","u","s","i","t","i","s">>, (* allergist *) <<"a","l","l","e","r","g","i","s","t">> >>,
    << (* pregnancy complications *) <<"p","r","e","g","n","a","n","c","y"," ","c","o","m","p","l","i","c","a","t","i","o","n","s">>, (* obstetrician *) <<"o","b","s","t","e","t","r","i","c","i","a","n">> >>,
    << (* prenatal care *) <<"p","r","e","n","a","t","a","l"," ","c","a","r","e">>, (* obstetrician *) <<"o","b","s","t","e","t","r","i","c","i","a","n">> >>,
    << (* fever *) <<"f","e","v","e","r">>, (* general practitioner *) <<"g","e","n","e","r","a","l"," ","p","r","a","c","t","i","t","i","o","n","e","r">> >>,
    << (* cough *) <<"c","o","u","g","h">>, (* general practitioner *) <<"g","e","n","e","r","a","l"," ","p","r","a","c","t","i","t","i","o","n","e","r">> >>,
    << (* fatigue *) <<"f","a","t","i","g","u","e">>, (* general practitioner *) <<"g","e","n","e","r","a","l"," ","p","r","a","c","t","i","t","i","o","n","e","r">> >>,
    << (* sore throat *) <<"s","o","r","e"," ","t","h","r","o","a","t">>, (* general practitioner *) <<"g","e","n","e","r","a","l"," ","p","r","a","c","t","i","t","i","o","n","e","r">> >>,
    << (* dizziness *) <<"d","i","z","z","i","n","e","s","s">>, (* general practitioner *) <<"g","e","n","e","r","a","l"," ","p","r","a","c","t","i","t","i","o","n","e","r">> >> >>

general_indicators == <<
    << (* you should see a doctor *) <<"y","o","u"," ","s","h","o","u","l","d"," ","s","e","e"," ","a"," ","d","o","c","t","o","r">>, (* general practitioner *) <<"g","e","n","e","r","a","l"," ","p","r","a","c","t","i","t","i","o","n","e","r">> >>,
    << (* consult a medical professional *) <<"c","o","n","s","u","l","t"," ","a"," ","m","e","d","i","c","a","l"," ","p","r","o","f","e","s","s","i","o","n","a","l">>, (* general practitioner *) <<"g","e","n","e","r","a","l"," ","p","r","a","c","t","i","t","i","o","n","e","r">> >>,
    << (* visit a healthcare provider *) <<"v","i","s","i","t"," ","a"," ","h","e","a","l","t","h","c","a","r","e"," ","p","r","o","v","i","d","e","r">>, (* general practitioner *) <<"g","e","n","e","r","a","l"," ","p","r","a","c","t","i","t","i","o","n","e","r">> >>,
    << (* speak with a physician *) <<"s","p","e","a","k"," ","w","i","t","h"," ","a"," ","p","h","y","s","i","c","i","a","n">>, (* general practitioner *) <<"g","e","n","e","r","a","l"," ","p","r","a","c","t","i","t","i","o","n","e","r">> >>,
    << (* medical attention *) <<"m","e","d","i","c","a","l"," ","a","t","t","e","n","t","i","o","n">>, (* general practitioner *) <<"g","e","n","e","r","a","l"," ","p","r","a","c","t","i","t","i","o","n","e","r">> >>,
    << (* seek professional help *) <<"s","e","e","k"," ","p","r","o","f","e","s","s","i","o","n","a","l"," ","h","e","l","p">>, (* general practitioner *) <<"g","e","n","e","r","a","l"," ","p","r","a","c","t","i","t","i","o","n","e","r">> >> >>

NO_CLEAR_MATCH ==
    (* Can you provide more details about your symptoms? For example, is the pain sharp, dull, or radiating to other areas? *) <<"C","a","n"," ","y","o","u"," ","p","r","o","v","i","d","e"," ","m","o","r","e"," ","d","e","t","a","i","l","s"," ","a","b","o","u","t"," ","y","o","u","r"," ","s","y","m","p","t","o","m","s","?"," ","F","o","r"," ","e","x","a","m","p","l","e",","," ","i","s"," ","t","h","e"," ","p","a","i","n"," ","s","h","a","r","p",","," ","d","u","l","l",","," ","o","r"," ","r","a","d","i","a","t","i","n","g"," ","t","o"," ","o","t","h","e","r"," ","a","r","e","a","s","?">>

specialization_keywords == <<
    << (* cardiologist *) <<"c","a","r","d","i","o","l","o","g","i","s","t">>, << (* cardiologist *) <<"c","a","r","d","i","o","l","o","g","i","s","t">>, (* heart doctor *) <<"h","e","a","r","t"," ","d","o","c","t","o","r">>, (* heart specialist *) <<"h","e","a","r","t"," ","s","p","e","c","i","a","l","i","s","t">> >> >>,
    << (* neurologist *) <<"n","e","u","r","o","l","o","g","i","s","t">>, << (* neurologist *) <<"n","e","u","r","o","l","o","g","i","s","t">>, (* brain doctor *) <<"b","r","a","i","n"," ","d","o","c","t","o","r">>, (* nerve doctor *) <<"n","e","r","v","e"," ","d","o","c","t","o","r">> >> >>,
    << (* pulmonologist *) <<"p","u","l","m","o","n","o","l","o","g","i","s","t">>, << (* pulmonologist *) <<"p","u","l","m","o","n","o","l","o","g","i","s","t">>, (* lung doctor *) <<"l","u","n","g"," ","d","o","c","t","o","r">>, (* respiratory specialist *) <<"r","e","s","p","i","r","a","t","o","r","y"," ","s","p","e","c","i","a","l","i","s","t">> >> >>,
    << (* gastroenterologist *) <<"g","a","s","t","r","o","e","n","t","e","r","o","l","o","g","i","s","t">>, << (* gastroenterologist *) <<"g","a","s","t","r","o","e","n","t","e","r","o","l","o","g","i","s","t">>, (* digestive specialist *) <<"d","i","g","e","s","t","i","v","e"," ","s","p","e","c","i","a","l","i","s","t">> >> >>,
    << (* dermatologist *) <<"d","e","r","m","a","t","o","l","o","g","i","s","t">>, << (* dermatologist *) <<"d","e","r","m","a","t","o","l","o","g","i","s","t">>, (* skin doctor *) <<"s","k","i","n"," ","d","o","c","t","o","r">>, (* skin specialist *) <<"s","k","i","n"," ","s","p","e","c","i","a","l","i","s","t">> >> >>,
    << (* orthopedist *) <<"o","r","t","h","o","p","e","d","i","s","t">>, << (* orthopedist *) <<"o","r","t","h","o","p","e","d","i","s","t">>, (* bone doctor *) <<"b","o","n","e"," ","d","o","c","t","o","r">>, (* joint specialist *) <<"j","o","i","n","t"," ","s","p","e","c","i","a","l","i","s","t">> >> >>,
    << (* ophthalmologist *) <<"o","p","h","t","h","a","l","m","o","l","o","g","i","s","t">>, << (* ophthalmologist *) <<"o","p","h","t","h","a","l","m","o","l","o","g","i","s","t">>, (* eye doctor *) <<"e","y","e"," ","d","o","c","t","o","r">> >> >>,
    << (* nephrologist *) <<"n","e","p","h","r","o","l","o","g","i","s","t">>, << (* nephrologist *) <<"n","e","p","h","r","o","l","o","g","i","s","t">>, (* kidney doctor *) <<"k","i","d","n","e","y"," ","d","o","c","t","o","r">> >> >>,
    << (* endocrinologist *) <<"e","n","d","o","c","r","i","n","o","l","o","g","i","s","t">>, << (* endocrinologist *) <<"e","n","d","o","c","r","i","n","o","l","o","g","i","s","t">>, (* hormone doctor *) <<"h","o","r","m","o","n","e"," ","d","o","c","t","o","r">>, (* diabetes specialist *) <<"d","i","a","b","e","t","e","s"," ","s","p","e","c","i","a","l","i","s","t">> >> >>,
    << (* psychiatrist *) <<"p","s","y","c","h","i","a","t","r","i","s","t">>, << (* psychiatrist *) <<"p","s","y","c","h","i","a","t","r","i","s","t">>, (* mental health specialist *) <<"m","e","n","t","a","l"," ","h","e","a","l","t","h"," ","s","p","e","c","i","a","l","i","s","t">>, (* psychologist *) <<"p","s","y","c","h","o","l","o","g","i","s","t">> >> >>,
    << (* gynecologist *) <<"g","y","n","e","c","o","l","o","g","i","s","t">>, << (* gynecologist *) <<"g","y","n","e","c","o","l","o","g","i","s","t">>, (* female health doctor *) <<"f","e","m","a","l","e"," ","h","e","a","l","t","h"," ","d","o","c","t","o","r">> >> >>,
    << (* urologist *) <<"u","r","o","l","o","g","i","s","t">>, << (* urologist *) <<"u","r","o","l","o","g","i","s","t">>, (* urinary specialist *) <<"u","r","i","n","a","r","y"," ","s","p","e","c","i","a","l","i","s","t">>, (* male health doctor *) <<"m","a","l","e"," ","h","e","a","l","t","h"," ","d","o","c","t","o","r">> >> >>,
    << (* rheumatologist *) <<"r","h","e","u","m","a","t","o","l","o","g","i","s","t">>, << (* rheumatologist *) <<"r","h","e","u","m","a","t","o","l","o","g","i","s","t">>, (* arthritis specialist *) <<"a","r","t","h","r","i","t","i","s"," ","s","p","e","c","i","a","l","i","s","t">> >> >>,
    << (* allergist *) <<"a","l","l","e","r","g","i","s","t">>, << (* allergist *) <<"a","l","l","e","r","g","i","s","t">>, (* allergy doctor *) <<"a","l","l","e","r","g","y"," ","d","o","c","t","o","r">> >> >>,
    << (* general practitioner *) <<"g","e","n","e","r","a","l"," ","p","r","a","c","t","i","t","i","o","n","e","r">>, << (* general doctor *) <<"g","e","n","e","r","a","l"," ","d","o","c","t","o","r">>, (* family doctor *) <<"f","a","m","i","l","y"," ","d","o","c","t","o","r">>, (* primary care *) <<"p","r","i","m","a","r","y"," ","c","a","r","e">> >> >> >>

doctor_indicators == <<
    (* see a doctor *) <<"s","e","e"," ","a"," ","d","o","c","t","o","r">>,
    (* consult a doctor *) <<"c","o","n","s","u","l","t"," ","a"," ","d","o","c","t","o","r">>,
    (* visit a doctor *) <<"v","i","s","i","t"," ","a"," ","d","o","c","t","o","r">>,
    (* consult a specialist *) <<"c","o","n","s","u","l","t"," ","a"," ","s","p","e","c","i","a","l","i","s","t">>,
    (* need a doctor *) <<"n","e","e","d"," ","a"," ","d","o","c","t","o","r">>,
    (* medical attention *) <<"m","e","d","i","c","a","l"," ","a","t","t","e","n","t","i","o","n">>,
    (* need to see *) <<"n","e","e","d"," ","t","o"," ","s","e","e">>,
    (* speak with a doctor *) <<"s","p","e","a","k"," ","w","i","t","h"," ","a"," ","d","o","c","t","o","r">>,
    (* speak with a specialist *) <<"s","p","e","a","k"," ","w","i","t","h"," ","a"," ","s","p","e","c","i","a","l","i","s","t">>,
    (* recommend a doctor *) <<"r","e","c","o","m","m","e","n","d"," ","a"," ","d","o","c","t","o","r">>,
    (* recommend a specialist *) <<"r","e","c","o","m","m","e","n","d"," ","a"," ","s","p","e","c","i","a","l","i","s","t">>,
    (* need professional help *) <<"n","e","e","d"," ","p","r","o","f","e","s","s","i","o","n","a","l"," ","h","e","l","p">>,
    (* might need to see a *) <<"m","i","g","h","t"," ","n","e","e","d"," ","t","o"," ","s","e","e"," ","a">>,
    (* should get in touch with a *) <<"s","h","o","u","l","d"," ","g","e","t"," ","i","n"," ","t","o","u","c","h"," ","w","i","t","h"," ","a">>,
    (* consider seeing a *) <<"c","o","n","s","i","d","e","r"," ","s","e","e","i","n","g"," ","a">> >>


\* The truth value of dict.get(key): false for a key the dict does not hold
Get(d, key) == key \in DOMAIN d /\ d[key]

\* dict.pop(key, None) and d[key] = value
Pop(d, key) == [k \in DOMAIN d \ {key} |-> d[k]]

Put(d, key, value) ==
    [k \in DOMAIN d \cup {key} |-> IF k = key THEN value ELSE d[k]]

Min(S) == CHOOSE x \in S : \A y \in S : x <= y

\* The first specialization, in the order of the table, one of whose
\* keywords occurs in the message; None when there is none.
extract_specialization_from_user_message(user_message) ==
    LET user_message_lower == lower(user_message)
        hits == {i \in 1..Len(specialization_keywords) :
                    \E j \in 1..Len(specialization_keywords[i][2]) :
                        Contains(specialization_keywords[i][2][j],
                                 user_message_lower)}
    IN  IF hits = {} THEN None ELSE specialization_keywords[Min(hits)][1]

needs_doctor(user_message, response) ==
    LET user_message_lower == lower(user_message)
        response_lower == lower(response)
    IN  \E i \in 1..Len(doctor_indicators) :
            \/ re_search(doctor_indicators[i], user_message_lower)
            \/ re_search(doctor_indicators[i], response_lower)

needs_prescription_check(user_message, gpt_response) ==
    LET user_message_lower == lower(user_message)
        gpt_response_lower == lower(gpt_response)
    IN  \E i \in 1..Len(prescription_keywords) :
            \/ Contains(prescription_keywords[i], user_message_lower)
            \/ Contains(prescription_keywords[i], gpt_response_lower)

extract_specialization_from_gpt(response) ==
    LET response_lower == lower(response)
        symptoms == {i \in 1..Len(symptom_to_specialization) :
                        Contains(symptom_to_specialization[i][1], response_lower)}
        general == {i \in 1..Len(general_indicators) :
                        re_search(general_indicators[i][1], response_lower)}
    IN  IF symptoms # {} THEN symptom_to_specialization[Min(symptoms)][2]
        ELSE IF general # {} THEN general_indicators[Min(general)][2]
        ELSE NO_CLEAR_MATCH

\* get_chatbot_response with the prescription check before the doctor check
get_chatbot_response_prescription_first(user_message, answer) ==
    LET found == extract_specialization_from_user_message(user_message)
        explicit_specialization == IF found = None THEN <<>> ELSE strip(found)
    IN  IF explicit_specialization # <<>>
        THEN [response |-> answer, suggest_doctor |-> TRUE,
              specialization |-> explicit_specialization]
        ELSE IF needs_prescription_check(user_message, answer)
        THEN [response |-> answer, check_prescriptions |-> TRUE]
        ELSE IF needs_doctor(user_message, answer)
        THEN [response |-> answer, suggest_doctor |-> TRUE,
              specialization |-> extract_specialization_from_gpt(answer)]
        ELSE [response |-> answer, suggest_doctor |-> FALSE,
              check_prescriptions |-> FALSE]

\* The dict get_chatbot_response returns for a user message and the answer
\* of the completion service.  The keys are those the code puts in.
get_chatbot_response(user_message, answer) ==
    LET found == extract_specialization_from_user_message(user_message)
        explicit_specialization == IF found = None THEN <<>> ELSE strip(found)
    IN  IF explicit_specialization # <<>>
        THEN [response |-> answer, suggest_doctor |-> TRUE,
              specialization |-> explicit_specialization]
        ELSE IF needs_doctor(user_message, answer)
        THEN [response |-> answer, suggest_doctor |-> TRUE,
              specialization |-> extract_specialization_from_gpt(answer)]
        ELSE IF needs_prescription_check(user_message, answer)
        THEN [response |-> answer, check_prescriptions |-> TRUE]
        ELSE [response |-> answer, suggest_doctor |-> FALSE,
              check_prescriptions |-> FALSE]

(***************************************************************************)
(* The requests the model sends: the texts a user may type, and the        *)
(* answers the text-completion service may give.                           *)
(***************************************************************************)
Queries ==
    {(* reset *) <<"r","e","s","e","t">>, (*   Start Over  *) <<" "," ","S","t","a","r","t"," ","O","v","e","r"," ">>, (* OK *) <<"O","K">>, (* no *) <<"n","o">>,
     (* 1 *) <<"1">>, (* 2 *) <<"2">>,
     (* Ann Lee *) <<"A","n","n"," ","L","e","e">>, (* bob ray *) <<"b","o","b"," ","r","a","y">>,
     (* I need a heart doctor *) <<"I"," ","n","e","e","d"," ","a"," ","h","e","a","r","t"," ","d","o","c","t","o","r">>, (* should i see a doctor *) <<"s","h","o","u","l","d"," ","i"," ","s","e","e"," ","a"," ","d","o","c","t","o","r">>,
     (* refill my pills *) <<"r","e","f","i","l","l"," ","m","y"," ","p","i","l","l","s">>,
     (* 09:00 am, 1:30 pm *) <<"0","9",":","0","0"," ","a","m",","," ","1",":","3","0"," ","p","m">>, (* 09:00 am, soon *) <<"0","9",":","0","0"," ","a","m",","," ","s","o","o","n">>}

Answers ==
    {(* Please rest and drink water. *) <<"P","l","e","a","s","e"," ","r","e","s","t"," ","a","n","d"," ","d","r","i","n","k"," ","w","a","t","e","r",".">>,
     (* You should see a doctor about your chest pain. *) <<"Y","o","u"," ","s","h","o","u","l","d"," ","s","e","e"," ","a"," ","d","o","c","t","o","r"," ","a","b","o","u","t"," ","y","o","u","r"," ","c","h","e","s","t"," ","p","a","i","n",".">>,
     (* Remember to take your medication. *) <<"R","e","m","e","m","b","e","r"," ","t","o"," ","t","a","k","e"," ","y","o","u","r"," ","m","e","d","i","c","a","t","i","o","n",".">>}

Patients == {"p1", "p2"}

\* current_user as get_current_user resolves it: a patient, or nobody
Unresolved == "nobody"

\* a current_user that is an object without the attribute user_id
WithoutUserId == "no_user_id"

Users == Patients \cup {Unresolved, WithoutUserId}

\* line 62: query.user_message.strip().lower()
Normalize(query) == lower(strip(query))

(***************************************************************************)
(* What the handler computes from the text of a request alone, computed    *)
(* once for every text of the model and looked up by the handler.          *)
(***************************************************************************)
UserMessage == [q \in Queries |-> Normalize(q)]

UserMessages == {UserMessage[q] : q \in Queries}

IntOf == [m \in UserMessages |-> int(m)]

ChatbotResponse ==
    [m \in UserMessages |-> [a \in Answers |-> get_chatbot_response(m, a)]]

\* The specializations the classification asks doctors for
Specializations ==
    {ChatbotResponse[p[1]][p[2]].specialization :
        p \in {r \in UserMessages \X Answers :
                  Get(ChatbotResponse[r[1]][r[2]], "suggest_doctor")}}

(***************************************************************************)
(* The relational store.  Rows are listed in the order of their table; a   *)
(* query returns its rows in that order.                                   *)
(***************************************************************************)
\* The doctors table; no operation of the chat changes it.
DoctorIds == <<"d1", "d2", "d3">>

Doctor ==
    [d1 |-> [first_name |-> (* Ann *) <<"A","n","n">>, last_name |-> (* Lee *) <<"L","e","e">>,
             specialization |-> (* Cardiologist *) <<"C","a","r","d","i","o","l","o","g","i","s","t">>],
     d2 |-> [first_name |-> (* Bob *) <<"B","o","b">>, last_name |-> (* Ray *) <<"R","a","y">>,
             specialization |-> (*  cardiologist  *) <<" ","c","a","r","d","i","o","l","o","g","i","s","t"," ">>],
     d3 |-> [first_name |-> (* Cy *) <<"C","y">>, last_name |-> (* Orr *) <<"O","r","r">>,
             specialization |-> (* General Practitioner *) <<"G","e","n","e","r","a","l"," ","P","r","a","c","t","i","t","i","o","n","e","r">>]]

\* The appointments table, read by the prescription check only.
AppointmentIds == <<"a1", "a2", "a3">>

Appointment ==
    [a1 |-> [patient_id |-> "p1", doctor_id |-> "d2", is_active |-> FALSE,
             appointment_date |-> 1],
     a2 |-> [patient_id |-> "p1", doctor_id |-> "d1", is_active |-> FALSE,
             appointment_date |-> 2],
     a3 |-> [patient_id |-> "p2", doctor_id |-> "d1", is_active |-> TRUE,
             appointment_date |-> 3]]

TimeSlotIds == <<"s1", "s2", "s3">>

PrescriptionIds == <<"rx1", "rx2", "rx3">>

ReminderIds == <<"r1", "r2">>

\* The query without its doctor_id condition
get_available_time_slots_of_any_doctor(db, doctor_id) ==
    SelectSeq(TimeSlotIds, LAMBDA s : db.time_slots[s].status = "available")

\* The query without its status condition
get_time_slots_of_any_status(db, doctor_id) ==
    SelectSeq(TimeSlotIds, LAMBDA s : db.time_slots[s].doctor_id = doctor_id)

\* select(TimeSlotModel).where(doctor_id == doctor_id, status == "available")
get_available_time_slots_from_db(db, doctor_id) ==
    SelectSeq(TimeSlotIds,
         LAMBDA s : /\ db.time_slots[s].doctor_id = doctor_id
                    /\ db.time_slots[s].status = "available")

\* What the session raises in place of a result: nothing, or the exception
\* of one of the functions the handler awaits.
NoFault == [call |-> "none", raises |-> "none"]

\* The exceptions the handler tells apart (lines 194, 200, 346, 471); an
\* exception of any other class is caught at line 510 only.
Exceptions == {"HTTPException", "ValueError", "Exception"}

\* The exception the call raises, "none" when it returns
raised(db, call) == IF db.fault.call = call THEN db.fault.raises ELSE "none"

\* The detail of the HTTPException a failing call raises: it tells which
\* call failed
detail_of(call) == call

\* The detail of the HTTPException for a prescription without reminders
NO_REMINDERS_FOUND == "no reminders found"

\* update(TimeSlotModel).where(time_slot_id == time_slot_id).values(status)
update_time_slot_status(db, time_slot_id, status) ==
    IF time_slot_id \in DOMAIN db.time_slots
    THEN [db EXCEPT !.time_slots[time_slot_id].status = status]
    ELSE db

\* The route function the chat calls; it returns what the query returns.
get_available_time_slots(doctor_id, db) ==
    get_available_time_slots_from_db(db, doctor_id)

\* Reserve a slot for a patient.  ok = FALSE stands for the ValueError the
\* chat answers with "no longer available".
update_time_slot_with_patient(db, time_slot_id, patient_id) ==
    IF /\ db.time_slots[time_slot_id].status = "available"
       /\ raised(db, "update_time_slot_with_patient") # "ValueError"
    THEN [ok |-> TRUE,
          db |-> [db EXCEPT !.time_slots[time_slot_id] =
                      [@ EXCEPT !.status = "booked",
                                !.patient_id = patient_id]]]
    ELSE [ok |-> FALSE, db |-> db]

\* SpecializationMapper.find_matching_specializations: the specialization
\* asked for.
find_matching_specializations(specialization) == {specialization}

\* lower(trim(specialization)) LIKE %spec.lower().strip()% for one of the
\* matching specializations
get_doctors_by_specialization_from_db(specialization) ==
    SelectSeq(DoctorIds,
         LAMBDA d : \E spec \in find_matching_specializations(specialization) :
                        Contains(strip(lower(spec)),
                                 lower(strip(Doctor[d].specialization))))

\* The query of every specialization the classification asks for, computed
\* once (no operation of the chat changes the doctors table).
DoctorsBySpecialization ==
    [s \in Specializations |-> get_doctors_by_specialization_from_db(s)]

\* The route function the chat calls; it returns what the query returns.
get_doctors_by_specialization(specialization, db) ==
    DoctorsBySpecialization[specialization]

\* The reminders of a prescription become ACTIVE and are returned; a
\* prescription without reminders is an HTTP error (ok = FALSE).
activate_reminders_for_prescription(prescription_id, db) ==
    LET mine == {r \in DOMAIN db.reminders :
                    db.reminders[r].prescription_id = prescription_id}
    IN  IF raised(db, "activate_reminders_for_prescription") = "HTTPException"
        THEN [ok |-> FALSE, db |-> db,
              detail |-> detail_of("activate_reminders_for_prescription")]
        ELSE IF mine = {}
        THEN [ok |-> FALSE, db |-> db, detail |-> NO_REMINDERS_FOUND]
        ELSE [ok |-> TRUE, detail |-> "none",
              db |-> [db EXCEPT !.reminders =
                          [r \in DOMAIN @ |->
                              IF r \in mine
                              THEN [@[r] EXCEPT !.status = "active"]
                              ELSE @[r]]]]

mark_prescription_inactive(db, prescription_id) ==
    [db EXCEPT !.prescriptions[prescription_id].is_active = FALSE]

update_reminder_times(prescription_id, new_times, db) ==
    [db EXCEPT !.reminder_times[prescription_id] = new_times]

(***************************************************************************)
(* pendulum.parse(text, strict=False), as far as the chat uses it: a clock *)
(* time H:MM or HH:MM, alone (24-hour) or followed by am or pm.  Text of   *)
(* another shape stands for the library's parse error (ok = FALSE).        *)
(***************************************************************************)
AllDigits(s) == \A i \in 1..Len(s) : IsDigit(s[i])

pendulum_parse(text) ==
    LET n == Len(text)
        meridiem == IF n >= 2 /\ SubSeq(text, n - 1, n) \in {(* am *) <<"a","m">>, (* pm *) <<"p","m">>}
                    THEN SubSeq(text, n - 1, n)
                    ELSE <<>>
        clock == IF meridiem = <<>> THEN text
                 ELSE rstrip(SubSeq(text, 1, n - 2))
        parts == split(clock, ":")
        shaped == /\ Len(parts) = 2
                  /\ Len(parts[1]) \in {1, 2} /\ AllDigits(parts[1])
                  /\ Len(parts[2]) = 2 /\ AllDigits(parts[2])
        h == DecimalValue(parts[1])
        m == DecimalValue(parts[2])
        inRange == /\ m <= 59
                   /\ IF meridiem = <<>> THEN h <= 23 ELSE h \in 1..12
    IN  IF shaped /\ inRange
        THEN [ok |-> TRUE,
              hour |-> IF meridiem = (* pm *) <<"p","m">> THEN (h % 12) + 12
                       ELSE IF meridiem = (* am *) <<"a","m">> THEN h % 12
                       ELSE h,
              minute |-> m]
        ELSE [ok |-> FALSE, hour |-> 0, minute |-> 0]

(***************************************************************************)
(* api/routes/chat.py: POST /chat                                          *)
(***************************************************************************)
affirmative_responses ==
    {(* yes *) <<"y","e","s">>, (* yeah *) <<"y","e","a","h">>, (* yup *) <<"y","u","p">>, (* sure *) <<"s","u","r","e">>, (* ok *) <<"o","k">>, (* alright *) <<"a","l","r","i","g","h","t">>, (* go ahead *) <<"g","o"," ","a","h","e","a","d">>}

negative_responses == {(* no *) <<"n","o">>, (* nope *) <<"n","o","p","e">>, (* not now *) <<"n","o","t"," ","n","o","w">>, (* nah *) <<"n","a","h">>, (* never mind *) <<"n","e","v","e","r"," ","m","i","n","d">>}

exit_words == {(* ok *) <<"o","k">>, (* okay *) <<"o","k","a","y">>, (* fine *) <<"f","i","n","e">>, (* thanks *) <<"t","h","a","n","k","s">>, (* exit *) <<"e","x","i","t">>, (* no *) <<"n","o">>}

reset_words == {(* reset *) <<"r","e","s","e","t">>, (* start over *) <<"s","t","a","r","t"," ","o","v","e","r">>}

\* What one request produced: the conversation state and the store it left,
\* the HTTP status, which of the handler's replies it returned, whether the
\* text-completion service was called, the store functions it called, and
\* how many calls of the handler were nested in the one of the request, and
\* the detail of an error that the reply or the response reports.
Reply(cs, db, response, calls) ==
    [cs |-> cs, db |-> db, status |-> 200, response |-> response,
     llm |-> FALSE, calls |-> calls, depth |-> 0, detail |-> "none"]

\* A reply whose text includes e.detail (line 349)
ReplyWithDetail(cs, db, response, calls, detail) ==
    [Reply(cs, db, response, calls) EXCEPT !.detail = detail]

\* ErrorMessages.CHATBOT_FAILED_COMMUNICATION
CHATBOT_FAILED_COMMUNICATION == "Failed to communicate with the chatbot."

\* raise HTTPException(status_code=status, detail=detail): the response is
\* the detail of the error
Raise(cs, db, status, detail, calls) ==
    [cs |-> cs, db |-> db, status |-> status, response |-> detail,
     llm |-> FALSE, calls |-> calls, depth |-> 0, detail |-> detail]

\* lines 510-515 without the raise: the failure is logged and the request
\* answered
Failed_but_answered(cs, db, calls) == Reply(cs, db, "chatbot_answer", calls)

\* lines 510-515: except Exception around the stage handling
Failed(cs, db, calls) == Raise(cs, db, 500, CHATBOT_FAILED_COMMUNICATION, calls)

\* reset_conversation without line 75: the payloads go, the stage stays.
reset_conversation_keeping_stage(cs, db) ==
    Reply(Pop(Pop(Pop(cs, "doctors"), "selected_doctor"), "appointment_id"),
          db, "conversation_reset", {})

\* reset_conversation without line 77: the selected doctor stays.
reset_conversation_keeping_doctor(cs, db) ==
    Reply(Pop(Pop(Put(cs, "stage", "general"), "doctors"), "appointment_id"),
          db, "conversation_reset", {})

\* lines 74-81
reset_conversation(cs, db) ==
    Reply(Pop(Pop(Pop(Put(cs, "stage", "general"), "doctors"),
                  "selected_doctor"), "appointment_id"),
          db, "conversation_reset", {})

\* line 88: f"{doctor.first_name} {doctor.last_name}".lower()
full_name(doctor) ==
    lower(Doctor[doctor].first_name \o (* ' ' *) <<" ">> \o Doctor[doctor].last_name)

FullName == [d \in DOMAIN Doctor |-> full_name(d)]

\* awaiting_doctor_selection without the test of line 93: the named
\* candidate is selected whether or not a slot is open
awaiting_doctor_selection_ignoring_slots(cs, db, user_message) ==
    IF "doctors" \notin DOMAIN cs THEN Failed(cs, db, {})
    ELSE
    LET matching == {i \in 1..Len(cs.doctors) :
                        user_message = FullName[cs.doctors[i]]}
    IN  IF matching = {}
        THEN Reply(cs, db, "doctor_not_found", {})
        ELSE Reply(Put(Put(cs, "stage", "awaiting_slot_selection"),
                       "selected_doctor", cs.doctors[Min(matching)]),
                   db, "available_time_slots", {"get_available_time_slots"})

\* awaiting_doctor_selection without line 142: the stage moves on and the
\* doctor is not kept
awaiting_doctor_selection_without_line_142(cs, db, user_message) ==
    IF "doctors" \notin DOMAIN cs THEN Failed(cs, db, {})
    ELSE
    LET matching == {i \in 1..Len(cs.doctors) :
                        user_message = FullName[cs.doctors[i]]}
    IN  IF matching = {}
        THEN Reply(cs, db, "doctor_not_found", {})
        ELSE
        LET doctor == cs.doctors[Min(matching)]
            available_slots == get_available_time_slots(doctor, db)
            other_doctors_with_slots ==
                SelectSeq(cs.doctors,
                          LAMBDA doc : /\ doc # doctor
                                       /\ get_available_time_slots(doc, db) # <<>>)
        IN  IF raised(db, "get_available_time_slots") # "none"
            THEN Failed(cs, db, {"get_available_time_slots"})
            ELSE IF available_slots = <<>>
            THEN IF other_doctors_with_slots # <<>>
                 THEN Reply(cs, db, "no_slots_other_doctors",
                            {"get_available_time_slots"})
                 ELSE Reply(cs, db, "no_slots_no_other_doctors",
                            {"get_available_time_slots"})
            ELSE Reply(Put(cs, "stage", "awaiting_slot_selection"),
                       db, "available_time_slots",
                       {"get_available_time_slots"})

\* lines 85-90 and 153-155: the request ends here with a reply or an error
\* (done), or goes on with the first candidate that the message names
select_doctor(cs, db, user_message) ==
    IF "doctors" \notin DOMAIN cs
    THEN [done |-> TRUE, result |-> Failed(cs, db, {})]
    ELSE
    LET matching == {i \in 1..Len(cs.doctors) :
                        user_message = FullName[cs.doctors[i]]}
    IN  IF matching = {}
        THEN [done |-> TRUE, result |-> Reply(cs, db, "doctor_not_found", {})]
        ELSE [done |-> FALSE, doctor |-> cs.doctors[Min(matching)]]

\* lines 91-151: the request from its first await on.  The conversation
\* state is read again at line 102 and written at lines 141-142.
offer_slots(cs, db, doctor) ==
    LET available_slots == get_available_time_slots(doctor, db)
    IN  IF raised(db, "get_available_time_slots") # "none"
        THEN Failed(cs, db, {"get_available_time_slots"})
        ELSE IF available_slots = <<>>
        THEN IF "doctors" \notin DOMAIN cs
             THEN Failed(cs, db, {"get_available_time_slots"})
             ELSE IF SelectSeq(cs.doctors,
                         LAMBDA doc :
                             /\ doc # doctor
                             /\ get_available_time_slots(doc, db) # <<>>) # <<>>
             THEN Reply(cs, db, "no_slots_other_doctors",
                        {"get_available_time_slots"})
             ELSE Reply(cs, db, "no_slots_no_other_doctors",
                        {"get_available_time_slots"})
        ELSE Reply(Put(Put(cs, "stage", "awaiting_slot_selection"),
                       "selected_doctor", doctor),
                   db, "available_time_slots",
                   {"get_available_time_slots"})

\* lines 85-155
awaiting_doctor_selection(cs, db, user_message) ==
    LET selected == select_doctor(cs, db, user_message)
    IN  IF selected.done THEN selected.result
        ELSE offer_slots(cs, db, selected.doctor)

\* lines 160-170: the request ends here with a reply or an error (done), or
\* goes on with the slot that the number names in the list fetched now
select_slot(cs, db, user_message) ==
    LET slot_number == IntOf[user_message]
    IN  IF ~slot_number.ok
        THEN [done |-> TRUE, result |-> Reply(cs, db, "enter_valid_number", {})]
        ELSE IF "selected_doctor" \notin DOMAIN cs
        THEN [done |-> TRUE, result |-> Failed(cs, db, {})]
        ELSE IF raised(db, "get_available_time_slots") = "ValueError"
        THEN [done |-> TRUE,
              result |-> Reply(cs, db, "enter_valid_number",
                               {"get_available_time_slots"})]
        ELSE IF raised(db, "get_available_time_slots") # "none"
        THEN [done |-> TRUE,
              result |-> Failed(cs, db, {"get_available_time_slots"})]
        ELSE
        LET available_slots ==
                get_available_time_slots(cs.selected_doctor, db)
        IN  IF ~(1 <= slot_number.value /\ slot_number.value <= Len(available_slots))
            THEN [done |-> TRUE,
                  result |-> Reply(cs, db, "invalid_slot_number",
                                   {"get_available_time_slots"})]
            ELSE [done |-> FALSE,
                  selected_slot |-> available_slots[slot_number.value]]

\* reserve_slot that takes the reservation for made when it is refused
reserve_slot_confirming_always(cs, db, patient_id, selected_slot) ==
    Reply(Put(cs, "stage", "booking_confirmed"),
          update_time_slot_with_patient(db, selected_slot, patient_id).db,
          "appointment_booked",
          {"get_available_time_slots", "update_time_slot_with_patient"})

\* lines 173-198: the request from the await of line 174 on.  The stage is
\* written at line 181 and the selected doctor read at line 186, for the
\* text of the reply.
reserve_slot(cs, db, patient_id, selected_slot) ==
    LET updated == update_time_slot_with_patient(db, selected_slot, patient_id)
    IN  IF raised(db, "update_time_slot_with_patient")
               \notin {"none", "ValueError"}
        THEN Failed(cs, db, {"get_available_time_slots",
                             "update_time_slot_with_patient"})
        ELSE IF updated.ok /\ "selected_doctor" \notin DOMAIN cs
        THEN Failed(Put(cs, "stage", "booking_confirmed"), updated.db,
                    {"get_available_time_slots",
                     "update_time_slot_with_patient"})
        ELSE IF updated.ok
        THEN Reply(Put(cs, "stage", "booking_confirmed"), updated.db,
                   "appointment_booked",
                   {"get_available_time_slots",
                    "update_time_slot_with_patient"})
        ELSE Reply(cs, db, "slot_no_longer_available",
                   {"get_available_time_slots",
                    "update_time_slot_with_patient"})

\* lines 158-203
awaiting_slot_selection(cs, db, patient_id, user_message) ==
    LET selected == select_slot(cs, db, user_message)
    IN  IF selected.done THEN selected.result
        ELSE reserve_slot(cs, db, patient_id, selected.selected_slot)

\* check_inactive_appointments without line 244: the list is stored and the
\* stage stays
check_inactive_appointments_without_line_244(cs, db, patient_id) ==
    LET inactive_appointments ==
            {a \in DOMAIN Appointment :
                /\ Appointment[a].patient_id = patient_id
                /\ ~Appointment[a].is_active}
        inactive_appointment ==
            CHOOSE a \in inactive_appointments :
                \A b \in inactive_appointments :
                    Appointment[b].appointment_date
                        <= Appointment[a].appointment_date
        prescriptions ==
            SelectSeq(PrescriptionIds,
                LAMBDA p :
                    /\ db.prescriptions[p].patient_id
                           = Appointment[inactive_appointment].patient_id
                    /\ db.prescriptions[p].doctor_id
                           = Appointment[inactive_appointment].doctor_id)
        inactive_prescriptions ==
            SelectSeq(prescriptions,
                LAMBDA p :
                    /\ db.prescriptions[p].is_active
                    /\ ~\E r \in DOMAIN db.reminders :
                           /\ db.reminders[r].prescription_id = p
                           /\ db.reminders[r].status = "active")
    IN  IF raised(db, "select_appointment") # "none"
        THEN Failed(cs, db, {"select_appointment"})
        ELSE IF inactive_appointments = {}
        THEN Reply(Put(cs, "stage", "waiting_for_exit"), db,
                   "no_prescriptions", {"select_appointment"})
        ELSE IF raised(db, "select_prescription") # "none"
        THEN Failed(cs, db, {"select_appointment", "select_prescription"})
        ELSE IF prescriptions = <<>>
        THEN Reply(Put(cs, "stage", "waiting_for_exit"), db,
                   "no_new_prescriptions",
                   {"select_appointment", "select_prescription"})
        ELSE IF /\ raised(db, "select_reminder") # "none"
                /\ \E i \in 1..Len(prescriptions) :
                       db.prescriptions[prescriptions[i]].is_active
        THEN Failed(cs, db, {"select_appointment", "select_prescription",
                             "select_reminder"})
        ELSE IF inactive_prescriptions = <<>>
        THEN Reply(Put(cs, "stage", "waiting_for_exit"), db,
                   "all_have_active_reminders",
                   {"select_appointment", "select_prescription"}
                       \cup IF \E i \in 1..Len(prescriptions) :
                                   db.prescriptions[prescriptions[i]].is_active
                            THEN {"select_reminder"} ELSE {})
        ELSE Reply(Put(cs, "prescriptions",
                       [i \in 1..Len(inactive_prescriptions) |->
                           [prescription_id |-> inactive_prescriptions[i],
                            details |-> db.prescriptions[
                                inactive_prescriptions[i]].medication_name]]),
                   db, "found_prescriptions",
                   {"select_appointment", "select_prescription",
                    "select_reminder"})

\* check_inactive_appointments without the test of line 240: every active
\* prescription is listed
check_inactive_appointments_ignoring_reminders(cs, db, patient_id) ==
    LET inactive_appointments ==
            {a \in DOMAIN Appointment :
                /\ Appointment[a].patient_id = patient_id
                /\ ~Appointment[a].is_active}
        inactive_appointment ==
            CHOOSE a \in inactive_appointments :
                \A b \in inactive_appointments :
                    Appointment[b].appointment_date
                        <= Appointment[a].appointment_date
        prescriptions ==
            SelectSeq(PrescriptionIds,
                LAMBDA p :
                    /\ db.prescriptions[p].patient_id
                           = Appointment[inactive_appointment].patient_id
                    /\ db.prescriptions[p].doctor_id
                           = Appointment[inactive_appointment].doctor_id)
        inactive_prescriptions ==
            SelectSeq(prescriptions,
                LAMBDA p : db.prescriptions[p].is_active)
    IN  IF raised(db, "select_appointment") # "none"
        THEN Failed(cs, db, {"select_appointment"})
        ELSE IF inactive_appointments = {}
        THEN Reply(Put(cs, "stage", "waiting_for_exit"), db,
                   "no_prescriptions", {"select_appointment"})
        ELSE IF raised(db, "select_prescription") # "none"
        THEN Failed(cs, db, {"select_appointment", "select_prescription"})
        ELSE IF prescriptions = <<>>
        THEN Reply(Put(cs, "stage", "waiting_for_exit"), db,
                   "no_new_prescriptions",
                   {"select_appointment", "select_prescription"})
        ELSE IF /\ raised(db, "select_reminder") # "none"
                /\ \E i \in 1..Len(prescriptions) :
                       db.prescriptions[prescriptions[i]].is_active
        THEN Failed(cs, db, {"select_appointment", "select_prescription",
                             "select_reminder"})
        ELSE IF inactive_prescriptions = <<>>
        THEN Reply(Put(cs, "stage", "waiting_for_exit"), db,
                   "all_have_active_reminders",
                   {"select_appointment", "select_prescription"}
                       \cup IF \E i \in 1..Len(prescriptions) :
                                   db.prescriptions[prescriptions[i]].is_active
                            THEN {"select_reminder"} ELSE {})
        ELSE Reply(Put(Put(cs, "stage", "activate_reminders"),
                       "prescriptions",
                       [i \in 1..Len(inactive_prescriptions) |->
                           [prescription_id |-> inactive_prescriptions[i],
                            details |-> db.prescriptions[
                                inactive_prescriptions[i]].medication_name]]),
                   db, "found_prescriptions",
                   {"select_appointment", "select_prescription",
                    "select_reminder"})

\* lines 206-274
check_inactive_appointments(cs, db, patient_id) ==
    LET inactive_appointments ==
            {a \in DOMAIN Appointment :
                /\ Appointment[a].patient_id = patient_id
                /\ ~Appointment[a].is_active}
        \* order_by(appointment_date.desc()), first()
        inactive_appointment ==
            CHOOSE a \in inactive_appointments :
                \A b \in inactive_appointments :
                    Appointment[b].appointment_date
                        <= Appointment[a].appointment_date
        prescriptions ==
            SelectSeq(PrescriptionIds,
                LAMBDA p :
                    /\ db.prescriptions[p].patient_id
                           = Appointment[inactive_appointment].patient_id
                    /\ db.prescriptions[p].doctor_id
                           = Appointment[inactive_appointment].doctor_id)
        inactive_prescriptions ==
            SelectSeq(prescriptions,
                LAMBDA p :
                    /\ db.prescriptions[p].is_active
                    /\ ~\E r \in DOMAIN db.reminders :
                           /\ db.reminders[r].prescription_id = p
                           /\ db.reminders[r].status = "active")
    IN  IF raised(db, "select_appointment") # "none"
        THEN Failed(cs, db, {"select_appointment"})
        ELSE IF inactive_appointments = {}
        THEN Reply(Put(cs, "stage", "waiting_for_exit"), db,
                   "no_prescriptions", {"select_appointment"})
        ELSE IF raised(db, "select_prescription") # "none"
        THEN Failed(cs, db, {"select_appointment", "select_prescription"})
        ELSE IF prescriptions = <<>>
        THEN Reply(Put(cs, "stage", "waiting_for_exit"), db,
                   "no_new_prescriptions",
                   {"select_appointment", "select_prescription"})
        ELSE IF /\ raised(db, "select_reminder") # "none"
                /\ \E i \in 1..Len(prescriptions) :
                       db.prescriptions[prescriptions[i]].is_active
        THEN Failed(cs, db, {"select_appointment", "select_prescription",
                             "select_reminder"})
        ELSE IF inactive_prescriptions = <<>>
        THEN Reply(Put(cs, "stage", "waiting_for_exit"), db,
                   "all_have_active_reminders",
                   {"select_appointment", "select_prescription"}
                       \cup IF \E i \in 1..Len(prescriptions) :
                                   db.prescriptions[prescriptions[i]].is_active
                            THEN {"select_reminder"} ELSE {})
        ELSE Reply(Put(Put(cs, "stage", "activate_reminders"),
                       "prescriptions",
                       [i \in 1..Len(inactive_prescriptions) |->
                           [prescription_id |-> inactive_prescriptions[i],
                            details |-> db.prescriptions[
                                inactive_prescriptions[i]].medication_name]]),
                   db, "found_prescriptions",
                   {"select_appointment", "select_prescription",
                    "select_reminder"})

\* waiting_for_exit with a label of its own at line 279
waiting_for_exit_to_done(cs, db, user_message) ==
    IF lower(user_message) \in exit_words
    THEN Reply(Put(cs, "stage", "done"), db, "anything_else", {})
    ELSE Reply(cs, db, "exit_not_understood", {})

\* waiting_for_exit without the test of line 278: every message ends the
\* stage
waiting_for_exit_on_any_message(cs, db, user_message) ==
    Reply(Put(cs, "stage", "reset"), db, "anything_else", {})

\* lines 277-286
waiting_for_exit(cs, db, user_message) ==
    IF lower(user_message) \in exit_words
    THEN Reply(Put(cs, "stage", "reset"), db, "anything_else", {})
    ELSE Reply(cs, db, "exit_not_understood", {})

\* activate_reminders with pop() in place of pop(0)
activate_reminders_taking_the_last(cs, db) ==
    IF "prescriptions" \notin DOMAIN cs THEN Failed(cs, db, {})
    ELSE IF cs.prescriptions # <<>>
    THEN LET current_prescription == cs.prescriptions[Len(cs.prescriptions)]
             prescription_id == current_prescription.prescription_id
             popped == Put(cs, "prescriptions",
                           SubSeq(cs.prescriptions, 1,
                                  Len(cs.prescriptions) - 1))
             activated == activate_reminders_for_prescription(prescription_id, db)
         IN  IF raised(db, "activate_reminders_for_prescription")
                    \notin {"none", "HTTPException"}
             THEN Failed(popped, db, {"activate_reminders_for_prescription"})
             ELSE IF /\ activated.ok
                     /\ raised(db, "mark_prescription_inactive")
                            = "HTTPException"
             THEN ReplyWithDetail(Put(popped, "stage", "general"),
                                  activated.db, "activation_issue",
                                  {"activate_reminders_for_prescription",
                                   "mark_prescription_inactive"},
                                  detail_of("mark_prescription_inactive"))
             ELSE IF /\ activated.ok
                     /\ raised(db, "mark_prescription_inactive") # "none"
             THEN Failed(popped, activated.db,
                         {"activate_reminders_for_prescription",
                          "mark_prescription_inactive"})
             ELSE IF activated.ok
             THEN Reply(Put(Put(popped, "stage", "update_reminder_prompt"),
                            "prescription_id", prescription_id),
                        mark_prescription_inactive(activated.db, prescription_id),
                        "reminders_activated",
                        {"activate_reminders_for_prescription",
                         "mark_prescription_inactive"})
             ELSE ReplyWithDetail(Put(popped, "stage", "general"), db,
                                  "activation_issue",
                                  {"activate_reminders_for_prescription"},
                                  activated.detail)
    ELSE Reply(Put(cs, "stage", "general"), db,
               "all_reminders_already_activated", {})

\* activate_reminders without the except clause of line 346: the error of
\* the activation reaches the clause of line 510
activate_reminders_without_line_346(cs, db) ==
    IF "prescriptions" \notin DOMAIN cs THEN Failed(cs, db, {})
    ELSE IF cs.prescriptions # <<>>
    THEN LET current_prescription == Head(cs.prescriptions)
             prescription_id == current_prescription.prescription_id
             popped == Put(cs, "prescriptions", Tail(cs.prescriptions))
             activated == activate_reminders_for_prescription(prescription_id, db)
         IN  IF raised(db, "activate_reminders_for_prescription")
                    \notin {"none", "HTTPException"}
             THEN Failed(popped, db, {"activate_reminders_for_prescription"})
             ELSE IF /\ activated.ok
                     /\ raised(db, "mark_prescription_inactive")
                            = "HTTPException"
             THEN ReplyWithDetail(Put(popped, "stage", "general"),
                                  activated.db, "activation_issue",
                                  {"activate_reminders_for_prescription",
                                   "mark_prescription_inactive"},
                                  detail_of("mark_prescription_inactive"))
             ELSE IF /\ activated.ok
                     /\ raised(db, "mark_prescription_inactive") # "none"
             THEN Failed(popped, activated.db,
                         {"activate_reminders_for_prescription",
                          "mark_prescription_inactive"})
             ELSE IF activated.ok
             THEN Reply(Put(Put(popped, "stage", "update_reminder_prompt"),
                            "prescription_id", prescription_id),
                        mark_prescription_inactive(activated.db, prescription_id),
                        "reminders_activated",
                        {"activate_reminders_for_prescription",
                         "mark_prescription_inactive"})
             ELSE Failed(popped, db, {"activate_reminders_for_prescription"})
    ELSE Reply(Put(cs, "stage", "general"), db,
               "all_reminders_already_activated", {})

\* activate_reminders without line 340: the prescription is not recorded
activate_reminders_without_line_340(cs, db) ==
    IF "prescriptions" \notin DOMAIN cs THEN Failed(cs, db, {})
    ELSE IF cs.prescriptions # <<>>
    THEN LET current_prescription == Head(cs.prescriptions)
             prescription_id == current_prescription.prescription_id
             popped == Put(cs, "prescriptions", Tail(cs.prescriptions))
             activated == activate_reminders_for_prescription(prescription_id, db)
         IN  IF raised(db, "activate_reminders_for_prescription")
                    \notin {"none", "HTTPException"}
             THEN Failed(popped, db, {"activate_reminders_for_prescription"})
             ELSE IF /\ activated.ok
                     /\ raised(db, "mark_prescription_inactive")
                            = "HTTPException"
             THEN ReplyWithDetail(Put(popped, "stage", "general"),
                                  activated.db, "activation_issue",
                                  {"activate_reminders_for_prescription",
                                   "mark_prescription_inactive"},
                                  detail_of("mark_prescription_inactive"))
             ELSE IF /\ activated.ok
                     /\ raised(db, "mark_prescription_inactive") # "none"
             THEN Failed(popped, activated.db,
                         {"activate_reminders_for_prescription",
                          "mark_prescription_inactive"})
             ELSE IF activated.ok
             THEN Reply(Put(popped, "stage", "update_reminder_prompt"),
                        mark_prescription_inactive(activated.db, prescription_id),
                        "reminders_activated",
                        {"activate_reminders_for_prescription",
                         "mark_prescription_inactive"})
             ELSE ReplyWithDetail(Put(popped, "stage", "general"), db,
                                  "activation_issue",
                                  {"activate_reminders_for_prescription"},
                                  activated.detail)
    ELSE Reply(Put(cs, "stage", "general"), db,
               "all_reminders_already_activated", {})

\* activate_reminders with prescriptions[0] in place of prescriptions.pop(0)
activate_reminders_keeping_the_list(cs, db) ==
    IF "prescriptions" \notin DOMAIN cs THEN Failed(cs, db, {})
    ELSE IF cs.prescriptions # <<>>
    THEN LET current_prescription == Head(cs.prescriptions)
             prescription_id == current_prescription.prescription_id
             popped == cs
             activated == activate_reminders_for_prescription(prescription_id, db)
         IN  IF raised(db, "activate_reminders_for_prescription")
                    \notin {"none", "HTTPException"}
             THEN Failed(popped, db, {"activate_reminders_for_prescription"})
             ELSE IF /\ activated.ok
                     /\ raised(db, "mark_prescription_inactive")
                            = "HTTPException"
             THEN ReplyWithDetail(Put(popped, "stage", "general"),
                                  activated.db, "activation_issue",
                                  {"activate_reminders_for_prescription",
                                   "mark_prescription_inactive"},
                                  detail_of("mark_prescription_inactive"))
             ELSE IF /\ activated.ok
                     /\ raised(db, "mark_prescription_inactive") # "none"
             THEN Failed(popped, activated.db,
                         {"activate_reminders_for_prescription",
                          "mark_prescription_inactive"})
             ELSE IF activated.ok
             THEN Reply(Put(Put(popped, "stage", "update_reminder_prompt"),
                            "prescription_id", prescription_id),
                        mark_prescription_inactive(activated.db, prescription_id),
                        "reminders_activated",
                        {"activate_reminders_for_prescription",
                         "mark_prescription_inactive"})
             ELSE ReplyWithDetail(Put(popped, "stage", "general"), db,
                                  "activation_issue",
                                  {"activate_reminders_for_prescription"},
                                  activated.detail)
    ELSE Reply(Put(cs, "stage", "general"), db,
               "all_reminders_already_activated", {})

\* lines 301-365: the branch of an affirmative message.  The stage has no
\* branch for any other message.
activate_reminders(cs, db) ==
    IF "prescriptions" \notin DOMAIN cs THEN Failed(cs, db, {})
    ELSE IF cs.prescriptions # <<>>
    THEN LET current_prescription == Head(cs.prescriptions)
             prescription_id == current_prescription.prescription_id
             popped == Put(cs, "prescriptions", Tail(cs.prescriptions))
             activated == activate_reminders_for_prescription(prescription_id, db)
         IN  IF raised(db, "activate_reminders_for_prescription")
                    \notin {"none", "HTTPException"}
             THEN Failed(popped, db, {"activate_reminders_for_prescription"})
             ELSE IF /\ activated.ok
                     /\ raised(db, "mark_prescription_inactive")
                            = "HTTPException"
             THEN ReplyWithDetail(Put(popped, "stage", "general"),
                                  activated.db, "activation_issue",
                                  {"activate_reminders_for_prescription",
                                   "mark_prescription_inactive"},
                                  detail_of("mark_prescription_inactive"))
             ELSE IF /\ activated.ok
                     /\ raised(db, "mark_prescription_inactive") # "none"
             THEN Failed(popped, activated.db,
                         {"activate_reminders_for_prescription",
                          "mark_prescription_inactive"})
             ELSE IF activated.ok
             THEN Reply(Put(Put(popped, "stage", "update_reminder_prompt"),
                            "prescription_id", prescription_id),
                        mark_prescription_inactive(activated.db, prescription_id),
                        "reminders_activated",
                        {"activate_reminders_for_prescription",
                         "mark_prescription_inactive"})
             ELSE ReplyWithDetail(Put(popped, "stage", "general"), db,
                                  "activation_issue",
                                  {"activate_reminders_for_prescription"},
                                  activated.detail)
    ELSE Reply(Put(cs, "stage", "general"), db,
               "all_reminders_already_activated", {})

\* update_reminder_prompt that drops the old reminder times as soon as the
\* user agrees to give new ones
update_reminder_prompt_dropping_times(cs, db, user_message) ==
    IF lower(user_message) \in affirmative_responses
    THEN Reply(Put(cs, "stage", "collect_new_reminder_times"),
               IF "prescription_id" \in DOMAIN cs
               THEN update_reminder_times(cs.prescription_id, <<>>, db)
               ELSE db,
               "provide_new_times", {"update_reminder_times"})
    ELSE IF lower(user_message) \in negative_responses
    THEN IF "prescriptions" \notin DOMAIN cs THEN Failed(cs, db, {})
         ELSE IF cs.prescriptions # <<>>
         THEN Reply(Put(cs, "stage", "activate_reminders"), db,
                    "next_prescription", {})
         ELSE Reply(Put(cs, "stage", "general"), db,
                    "all_prescriptions_processed", {})
    ELSE Reply(cs, db, "answer_yes_or_no", {})

\* update_reminder_prompt without lines 388-397: a negative word always
\* ends the flow
update_reminder_prompt_ending_the_flow(cs, db, user_message) ==
    IF lower(user_message) \in affirmative_responses
    THEN Reply(Put(cs, "stage", "collect_new_reminder_times"), db,
               "provide_new_times", {})
    ELSE IF lower(user_message) \in negative_responses
    THEN Reply(Put(cs, "stage", "general"), db,
               "all_prescriptions_processed", {})
    ELSE Reply(cs, db, "answer_yes_or_no", {})

\* lines 368-407
update_reminder_prompt(cs, db, user_message) ==
    IF lower(user_message) \in affirmative_responses
    THEN Reply(Put(cs, "stage", "collect_new_reminder_times"), db,
               "provide_new_times", {})
    ELSE IF lower(user_message) \in negative_responses
    THEN IF "prescriptions" \notin DOMAIN cs THEN Failed(cs, db, {})
         ELSE IF cs.prescriptions # <<>>
         THEN Reply(Put(cs, "stage", "activate_reminders"), db,
                    "next_prescription", {})
         ELSE Reply(Put(cs, "stage", "general"), db,
                    "all_prescriptions_processed", {})
    ELSE Reply(cs, db, "answer_yes_or_no", {})

\* lines 412-419: the times of a message, or ok = FALSE when an item does
\* not parse
parse_new_times(user_message) ==
    LET new_times_str == split(user_message, ",")
        parsed == [i \in 1..Len(new_times_str) |->
                      pendulum_parse(strip(new_times_str[i]))]
    IN  [ok |-> \A i \in 1..Len(parsed) : parsed[i].ok,
         new_times |->
             SubSeq([i \in 1..Len(parsed) |->
                        [hour |-> parsed[i].hour, minute |-> parsed[i].minute]],
                    1, Len(parsed))]

NewTimes == [m \in UserMessages |-> parse_new_times(m)]

\* collect_new_reminder_times that writes each time as soon as it is parsed:
\* the times before the item that fails are written
collect_new_reminder_times_item_by_item(cs, db, user_message) ==
    LET new_times_str == split(user_message, ",")
        parsed == [i \in 1..Len(new_times_str) |->
                      pendulum_parse(strip(new_times_str[i]))]
        good == {n \in 0..Len(parsed) : \A i \in 1..n : parsed[i].ok}
        prefix == CHOOSE n \in good : \A k \in good : k <= n
        written == SubSeq([i \in 1..Len(parsed) |->
                              [hour |-> parsed[i].hour,
                               minute |-> parsed[i].minute]], 1, prefix)
    IN  IF "prescription_id" \notin DOMAIN cs
        THEN Reply(Put(cs, "stage", "general"), db, "prescription_not_found", {})
        ELSE IF prefix < Len(parsed) \/ raised(db, "update_reminder_times") # "none"
        THEN Reply(cs, IF prefix > 0
                       THEN update_reminder_times(cs.prescription_id, written, db)
                       ELSE db,
                   "times_error", {"update_reminder_times"})
        ELSE IF cs.prescriptions # <<>>
        THEN Reply(Put(cs, "stage", "activate_reminders"),
                   update_reminder_times(cs.prescription_id, written, db),
                   "times_updated_next_prescription", {"update_reminder_times"})
        ELSE Reply(Put(cs, "stage", "general"),
                   update_reminder_times(cs.prescription_id, written, db),
                   "times_updated_all_processed", {"update_reminder_times"})

\* lines 410-455
collect_new_reminder_times(cs, db, user_message) ==
    LET new_times == NewTimes[user_message].new_times
    IN  IF ~NewTimes[user_message].ok
        THEN Reply(cs, db, "times_error", {})
        ELSE IF "prescription_id" \in DOMAIN cs
        THEN LET updated ==
                     update_reminder_times(cs.prescription_id, new_times, db)
             IN  IF raised(db, "update_reminder_times") # "none"
                 THEN Reply(cs, db, "times_error", {"update_reminder_times"})
                 ELSE IF "prescriptions" \notin DOMAIN cs
                 THEN Reply(cs, updated, "times_error",
                            {"update_reminder_times"})
                 ELSE IF cs.prescriptions # <<>>
                 THEN Reply(Put(cs, "stage", "activate_reminders"), updated,
                            "times_updated_next_prescription",
                            {"update_reminder_times"})
                 ELSE Reply(Put(cs, "stage", "general"), updated,
                            "times_updated_all_processed",
                            {"update_reminder_times"})
        ELSE Reply(Put(cs, "stage", "general"), db,
                   "prescription_not_found", {})

WithCompletion(result) == [result EXCEPT !.llm = TRUE]

\* line 503: what the handler returns is what its nested call returned
Nested(inner) == [inner EXCEPT !.depth = @ + 1]

\* get_chatbot_response raising (crud/chat.py re-raises what the completion
\* raised) in place of returning an answer
CompletionError == <<"CompletionError">>

\* The general conversation calls the handler again (line 503).
RECURSIVE chat_with_bot(_, _, _, _, _)
\* general_conversation without the test of line 467: an empty lookup
\* becomes the candidate list
general_conversation_without_empty_test(cs, db, current_user, query, answer) ==
    IF answer = CompletionError THEN WithCompletion(Failed(cs, db, {}))
    ELSE
    LET chatbot_response == ChatbotResponse[UserMessage[query]][answer]
    IN  IF Get(chatbot_response, "suggest_doctor")
        THEN LET doctors_response ==
                     get_doctors_by_specialization(
                         chatbot_response.specialization, db)
             IN  IF raised(db, "get_doctors_by_specialization") = "HTTPException"
                 THEN WithCompletion(
                          Reply(cs, db, "no_doctors_available",
                                {"get_doctors_by_specialization"}))
                 ELSE IF raised(db, "get_doctors_by_specialization") # "none"
                 THEN WithCompletion(
                          Failed(cs, db, {"get_doctors_by_specialization"}))
                 ELSE WithCompletion(
                          Reply(Put(Put(cs, "stage", "awaiting_doctor_selection"),
                                    "doctors", doctors_response),
                                db, "available_doctors",
                                {"get_doctors_by_specialization"}))
        ELSE IF Get(chatbot_response, "check_prescriptions")
        THEN LET inner == chat_with_bot(
                              Put(cs, "stage", "check_inactive_appointments"),
                              db, current_user, query, answer)
             IN  WithCompletion(
                     Nested(IF inner.status = 200 THEN inner
                            ELSE [Failed(inner.cs, inner.db, inner.calls)
                                      EXCEPT !.depth = inner.depth]))
        ELSE WithCompletion(Reply(cs, db, "chatbot_answer", {}))

\* general_conversation that leaves booking_confirmed for general once it
\* has answered
general_conversation_after_booking(cs, db, current_user, query, answer) ==
    IF answer = CompletionError THEN WithCompletion(Failed(cs, db, {}))
    ELSE
    LET chatbot_response == ChatbotResponse[UserMessage[query]][answer]
    IN  IF Get(chatbot_response, "suggest_doctor")
        THEN LET doctors_response ==
                     get_doctors_by_specialization(
                         chatbot_response.specialization, db)
             IN  IF raised(db, "get_doctors_by_specialization") = "HTTPException"
                 THEN WithCompletion(
                          Reply(cs, db, "no_doctors_available",
                                {"get_doctors_by_specialization"}))
                 ELSE IF raised(db, "get_doctors_by_specialization") # "none"
                 THEN WithCompletion(
                          Failed(cs, db, {"get_doctors_by_specialization"}))
                 ELSE IF doctors_response = <<>>
                 THEN WithCompletion(
                          Reply(cs, db, "no_doctors_found",
                                {"get_doctors_by_specialization"}))
                 ELSE WithCompletion(
                          Reply(Put(Put(cs, "stage", "awaiting_doctor_selection"),
                                    "doctors", doctors_response),
                                db, "available_doctors",
                                {"get_doctors_by_specialization"}))
        ELSE IF Get(chatbot_response, "check_prescriptions")
        THEN LET inner == chat_with_bot(
                              Put(cs, "stage", "check_inactive_appointments"),
                              db, current_user, query, answer)
             IN  WithCompletion(
                     Nested(IF inner.status = 200 THEN inner
                            ELSE [Failed(inner.cs, inner.db, inner.calls)
                                      EXCEPT !.depth = inner.depth]))
        ELSE WithCompletion(
                 Reply(IF cs.stage = "booking_confirmed"
                       THEN Put(cs, "stage", "general") ELSE cs,
                       db, "chatbot_answer", {}))

\* lines 458-508, reached when no stage branch has returned
general_conversation(cs, db, current_user, query, answer) ==
    IF answer = CompletionError THEN WithCompletion(Failed(cs, db, {}))
    ELSE
    LET chatbot_response == ChatbotResponse[UserMessage[query]][answer]
    IN  IF Get(chatbot_response, "suggest_doctor")
        THEN LET doctors_response ==
                     get_doctors_by_specialization(
                         chatbot_response.specialization, db)
             IN  IF raised(db, "get_doctors_by_specialization") = "HTTPException"
                 THEN WithCompletion(
                          Reply(cs, db, "no_doctors_available",
                                {"get_doctors_by_specialization"}))
                 ELSE IF raised(db, "get_doctors_by_specialization") # "none"
                 THEN WithCompletion(
                          Failed(cs, db, {"get_doctors_by_specialization"}))
                 ELSE IF doctors_response = <<>>
                 THEN WithCompletion(
                          Reply(cs, db, "no_doctors_found",
                                {"get_doctors_by_specialization"}))
                 ELSE WithCompletion(
                          Reply(Put(Put(cs, "stage", "awaiting_doctor_selection"),
                                    "doctors", doctors_response),
                                db, "available_doctors",
                                {"get_doctors_by_specialization"}))
        ELSE IF Get(chatbot_response, "check_prescriptions")
        THEN LET inner == chat_with_bot(
                              Put(cs, "stage", "check_inactive_appointments"),
                              db, current_user, query, answer)
             IN  WithCompletion(
                     Nested(IF inner.status = 200 THEN inner
                            ELSE [Failed(inner.cs, inner.db, inner.calls)
                                      EXCEPT !.depth = inner.depth]))
        ELSE WithCompletion(Reply(cs, db, "chatbot_answer", {}))

\* line 66 with an object that has no user_id let through
not_authenticated_only_none(current_user) == current_user = Unresolved

\* line 66: not current_user or not hasattr(current_user, "user_id")
not_authenticated(current_user) == current_user \in {Unresolved, WithoutUserId}

\* lines 42-515: the handler of POST /chat
chat_with_bot(cs, db, current_user, query, answer) ==
    LET user_message == UserMessage[query]
        patient_id == current_user
    IN  IF not_authenticated(current_user)
        THEN Raise(cs, db, 401, "Could not authenticate user", {})
        ELSE IF user_message \in reset_words THEN reset_conversation(cs, db)
        ELSE IF cs.stage = "awaiting_doctor_selection"
        THEN awaiting_doctor_selection(cs, db, user_message)
        ELSE IF cs.stage = "awaiting_slot_selection"
        THEN awaiting_slot_selection(cs, db, patient_id, user_message)
        ELSE IF cs.stage = "check_inactive_appointments"
        THEN check_inactive_appointments(cs, db, patient_id)
        ELSE IF cs.stage = "waiting_for_exit"
        THEN waiting_for_exit(cs, db, user_message)
        ELSE IF /\ cs.stage = "activate_reminders"
                /\ lower(user_message) \in affirmative_responses
        THEN activate_reminders(cs, db)
        ELSE IF cs.stage = "update_reminder_prompt"
        THEN update_reminder_prompt(cs, db, user_message)
        ELSE IF cs.stage = "collect_new_reminder_times"
        THEN collect_new_reminder_times(cs, db, user_message)
        ELSE general_conversation(cs, db, current_user, query, answer)

(***************************************************************************)
(* repository/crud/chat.py: the reminder queue                             *)
(***************************************************************************)
\* generate_reminder_message: the completion's text for the medication, or
\* the fixed fallback text when the completion fails
generate_reminder_message(medication_name, completion) ==
    [medication_name |-> medication_name,
     text |-> IF completion = "failed" THEN "fallback" ELSE completion]

\* Queue.put
enqueue_reminder(queue, prescription, completion) ==
    Append(queue,
           generate_reminder_message(prescription.medication_name, completion))

\* lines 529-532: while not reminder_queue.empty(): reminders.append(get())
RECURSIVE drain(_, _)
drain(queue, reminders) ==
    IF queue = <<>> THEN [queue |-> queue, reminders |-> reminders]
    ELSE drain(Tail(queue), Append(reminders, Head(queue)))

\* get_reminders with an if in place of the while: one reminder a call
get_reminders_taking_one(queue) ==
    IF queue = <<>> THEN [queue |-> queue, reminders |-> <<>>]
    ELSE [queue |-> Tail(queue), reminders |-> <<Head(queue)>>]

\* lines 518-532
get_reminders(queue) == drain(queue, <<>>)

(***************************************************************************)
(* repository/crud/user.py and patient.py: the accounts.  A row is named   *)
(* by its primary key; a field a caller leaves out is None.                *)
(***************************************************************************)
\* The value of an Optional field that is not supplied
NotSupplied == "None"

\* if value: -- None and the empty string are false
truthy(value) == value \notin {NotSupplied, ""}

\* What a query returns when no row matches
NoUser == "None"

\* securities/hashing: the stored form of a password, and the test of a
\* password against a stored form
get_password_hash(password) == [hash_of |-> password]

verify_password(password, hashed_password) ==
    hashed_password = get_password_hash(password)

\* The rows at the start.  A username names one row of its table; the same
\* username may be a patient's and a doctor's.
InitialAccounts ==
    [patients |->
         [p1 |-> [username |-> "ann", hashed_password |-> get_password_hash("pw1"),
                  first_name |-> "Ann", last_name |-> "Lee",
                  phone_number |-> "111", dob |-> "1990-01-01"],
          p2 |-> [username |-> "bob", hashed_password |-> get_password_hash("pw2"),
                  first_name |-> "Bob", last_name |-> "Ray",
                  phone_number |-> "222", dob |-> "1980-02-02"]],
     doctors |->
         [d1 |-> [username |-> "ann", hashed_password |-> get_password_hash("pw2"),
                  first_name |-> "Ann", last_name |-> "Lee",
                  phone_number |-> "333", specialization |-> "Cardiologist"],
          d3 |-> [username |-> "cy", hashed_password |-> get_password_hash("pw1"),
                  first_name |-> "Cy", last_name |-> "Orr",
                  phone_number |-> "444",
                  specialization |-> "General Practitioner"]],
     admins |->
         [a1 |-> [username |-> "bob", hashed_password |-> get_password_hash("pw1")]]]

\* select(Model).filter(Model.username == username), scalar_one_or_none(),
\* then verify_password: the row, or None.  More than one row would be the
\* error of scalar_one_or_none.
authenticate(table, username, password) ==
    LET rows == {id \in DOMAIN table : table[id].username = username}
    IN  IF Cardinality(rows) > 1 THEN "MultipleResultsFound"
        ELSE IF rows = {} THEN NoUser
        ELSE LET user == CHOOSE id \in rows : TRUE
             IN  IF ~verify_password(password, table[user].hashed_password)
                 THEN NoUser
                 ELSE user

authenticate_patient(db, username, password) ==
    authenticate(db.patients, username, password)

\* authenticate_doctor without the test of the password
authenticate_doctor_by_username(db, username, password) ==
    LET rows == {id \in DOMAIN db.doctors : db.doctors[id].username = username}
    IN  IF rows = {} THEN NoUser ELSE CHOOSE id \in rows : TRUE

authenticate_doctor(db, username, password) ==
    authenticate(db.doctors, username, password)

authenticate_admin(db, username, password) ==
    authenticate(db.admins, username, password)

\* if update.field: row.field = update.field
assign_if_supplied(row, field, value) ==
    IF truthy(value) THEN [row EXCEPT ![field] = value] ELSE row

\* if update.password: row.hashed_password = get_password_hash(update.password)
hash_if_supplied(row, password) ==
    IF truthy(password)
    THEN [row EXCEPT !.hashed_password = get_password_hash(password)]
    ELSE row

\* update_patient: raises is "none" when the row is returned
update_patient(db, patient_id, patient_update) ==
    IF patient_id \notin DOMAIN db.patients
    THEN [raises |-> "Patient not found", db |-> db]
    ELSE LET db_patient ==
                 assign_if_supplied(
                   assign_if_supplied(
                     assign_if_supplied(
                       assign_if_supplied(
                         hash_if_supplied(db.patients[patient_id],
                                          patient_update.password),
                         "first_name", patient_update.first_name),
                       "last_name", patient_update.last_name),
                     "phone_number", patient_update.phone_number),
                   "dob", patient_update.dob)
         IN  [raises |-> "none",
              db |-> [db EXCEPT !.patients[patient_id] = db_patient]]

\* update_doctor that assigns every field of the update, supplied or not
update_doctor_assigning_all(db, doctor_id, doctor_update) ==
    IF doctor_id \notin DOMAIN db.doctors
    THEN [raises |-> "Doctor not found", db |-> db]
    ELSE [raises |-> "none",
          db |-> [db EXCEPT !.doctors[doctor_id] =
                      [@ EXCEPT
                          !.hashed_password =
                              get_password_hash(doctor_update.password),
                          !.first_name = doctor_update.first_name,
                          !.last_name = doctor_update.last_name,
                          !.phone_number = doctor_update.phone_number,
                          !.specialization = doctor_update.specialization]]]

\* update_doctor: raises is "none" when the row is returned
update_doctor(db, doctor_id, doctor_update) ==
    IF doctor_id \notin DOMAIN db.doctors
    THEN [raises |-> "Doctor not found", db |-> db]
    ELSE LET db_doctor ==
                 assign_if_supplied(
                   assign_if_supplied(
                     assign_if_supplied(
                       assign_if_supplied(
                         hash_if_supplied(db.doctors[doctor_id],
                                          doctor_update.password),
                         "first_name", doctor_update.first_name),
                       "last_name", doctor_update.last_name),
                     "phone_number", doctor_update.phone_number),
                   "specialization", doctor_update.specialization)
         IN  [raises |-> "none",
              db |-> [db EXCEPT !.doctors[doctor_id] = db_doctor]]

(***************************************************************************)
(* State                                                                   *)
(***************************************************************************)
VARIABLES
    conversation_state, \* the module-level dict of api/routes/chat.py
    store,              \* the rows of the store that the chat reads or writes
    last,               \* the last chat request, and what it produced
    reminder_queue,     \* the module-level Queue of repository/crud/chat.py
    enqueued,           \* every reminder ever put in the queue, in order
    delivered,          \* every reminder ever returned by get_reminders
    returned,           \* the body of the last get_reminders response
    previous,           \* the chat request before the last one: who sent it and
                        \* the reply it got
    fault,              \* what the session raised during the last chat request
    accounts,           \* the rows of the patients, doctors and admins tables
    outcome,            \* the last call of an account function and its result
    updates,            \* how many account updates were made
    displayed,          \* the slots listed in the reply that asked for a number
    pending,            \* the slot-number request that awaits its reservation
    activated,          \* the prescriptions whose reminders the chat activated,
                        \* in the order of their activation
    suspended           \* the chat request that awaits a store call while
                        \* another request is handled

vars == <<conversation_state, store, last, reminder_queue, enqueued, delivered,
          returned, previous, fault, accounts, outcome, updates, displayed,
          pending, activated, suspended>>

booking_vars == <<displayed, pending>>

flow_vars == <<activated, suspended>>

account_vars == <<accounts, outcome, updates>>

chat_vars == <<conversation_state, store, last, previous, fault>>

reminder_vars == <<reminder_queue, enqueued, delivered, returned>>

MaxUpdates == 2

\* The most reminders the model enqueues
MaxReminders == 3

\* The rows at the start: doctor d1 has two open slots (the first and the
\* third row) and d2 one; patient p1
\* has three prescriptions, of which rx2 has no reminder to activate.
InitialStore ==
     [fault |-> NoFault,
      time_slots |->
          [s1 |-> [doctor_id |-> "d1", status |-> "available", patient_id |-> "none"],
           s2 |-> [doctor_id |-> "d2", status |-> "available", patient_id |-> "none"],
           s3 |-> [doctor_id |-> "d1", status |-> "available", patient_id |-> "none"]],
      prescriptions |->
          [rx1 |-> [patient_id |-> "p1", doctor_id |-> "d1", is_active |-> TRUE,
                    medication_name |-> "aspirin"],
           rx2 |-> [patient_id |-> "p1", doctor_id |-> "d1", is_active |-> TRUE,
                    medication_name |-> "ibuprofen"],
           rx3 |-> [patient_id |-> "p1", doctor_id |-> "d2", is_active |-> TRUE,
                    medication_name |-> "zinc"]],
      reminders |->
          [r1 |-> [prescription_id |-> "rx1", status |-> "inactive"],
           r2 |-> [prescription_id |-> "rx3", status |-> "inactive"]],
      reminder_times |->
          [rx1 |-> <<[hour |-> 8, minute |-> 0]>>,
           rx2 |-> <<[hour |-> 8, minute |-> 0]>>,
           rx3 |-> <<[hour |-> 8, minute |-> 0]>>]]

NoOutcome == [op |-> "none", key |-> "none", input |-> "none", result |-> "none"]

NoPending == [user |-> Unresolved, query |-> <<>>, selected_slot |-> "none"]

NotSuspended == [at |-> "none"]

NoRequest ==
    [user |-> Unresolved, query |-> <<>>, answer |-> None, stage |-> "initial",
     status |-> 0, response |-> "none", llm |-> FALSE, calls |-> {},
     depth |-> 0, detail |-> "none"]

InitialConversation ==
    /\ conversation_state = [stage |-> "initial", doctors |-> <<>>]
    /\ last = NoRequest
    /\ reminder_queue = <<>>
    /\ enqueued = <<>>
    /\ delivered = <<>>
    /\ returned = <<>>
    /\ previous = [user |-> Unresolved, response |-> "none"]
    /\ fault = NoFault
    /\ accounts = InitialAccounts
    /\ outcome = NoOutcome
    /\ updates = 0
    /\ displayed = <<>>
    /\ pending = NoPending
    /\ activated = <<>>
    /\ suspended = NotSuspended

Init ==
    /\ store = InitialStore
    /\ InitialConversation

\* One request to POST /chat, handled from its first line to its response.
\* The answer of the text-completion service is an input of the requests
\* that call it.
ChatRequest(users, queries) ==
    \E current_user \in users, query \in queries :
        \E probe \in {chat_with_bot(conversation_state, store, current_user, query,
                                    CHOOSE a \in Answers : TRUE)} :
            \E answer \in (IF probe.llm THEN Answers ELSE {None}) :
                \E result \in {IF probe.llm
                                THEN chat_with_bot(conversation_state, store,
                                                   current_user, query, answer)
                                ELSE probe} :
                    /\ conversation_state' = result.cs
                    /\ store' = result.db
                    /\ last' = [user |-> current_user, query |-> query,
                                answer |-> answer,
                                stage |-> conversation_state.stage,
                                status |-> result.status,
                                response |-> result.response,
                                llm |-> result.llm, calls |-> result.calls,
                                depth |-> result.depth, detail |-> result.detail]
                    /\ UNCHANGED <<reminder_queue, enqueued, delivered, returned,
                                   fault, account_vars>>

Chat ==
    /\ ChatRequest(Users, Queries)
    /\ UNCHANGED <<previous, booking_vars, flow_vars>>

\* The functions the handler awaits
FaultCalls ==
    {"get_available_time_slots", "update_time_slot_with_patient",
     "select_appointment", "select_prescription", "select_reminder",
     "activate_reminders_for_prescription", "mark_prescription_inactive",
     "update_reminder_times", "get_doctors_by_specialization"}

Faults == {NoFault} \cup [call : FaultCalls, raises : Exceptions]

\* The patient of the requests that meet a failing session
FaultUsers == {"p1"}

\* The messages of those requests: one or two for each stage
FaultQueries ==
    {(* reset *) <<"r","e","s","e","t">>, (* OK *) <<"O","K">>, (* no *) <<"n","o">>, (* 1 *) <<"1">>, (* Ann Lee *) <<"A","n","n"," ","L","e","e">>, (* bob ray *) <<"b","o","b"," ","r","a","y">>,
     (* I need a heart doctor *) <<"I"," ","n","e","e","d"," ","a"," ","h","e","a","r","t"," ","d","o","c","t","o","r">>, (* should i see a doctor *) <<"s","h","o","u","l","d"," ","i"," ","s","e","e"," ","a"," ","d","o","c","t","o","r">>, (* refill my pills *) <<"r","e","f","i","l","l"," ","m","y"," ","p","i","l","l","s">>,
     (* 09:00 am, 1:30 pm *) <<"0","9",":","0","0"," ","a","m",","," ","1",":","3","0"," ","p","m">>}

\* One request to POST /chat during which one of the awaited functions, or
\* the text-completion service, may raise.  A function can only raise in a
\* request that calls it, which is a request that calls it when nothing
\* fails.
ChatRequestWithFault(users, queries, exceptions) ==
    \E current_user \in users, query \in queries :
        \E probe \in {chat_with_bot(conversation_state, store, current_user,
                                    query, CHOOSE a \in Answers : TRUE)} :
        \E answer \in (IF probe.llm THEN Answers \cup {CompletionError}
                       ELSE {None}) :
        \E sound \in {IF probe.llm
                       THEN chat_with_bot(conversation_state, store,
                                          current_user, query, answer)
                       ELSE probe} :
        \E f \in {NoFault} \cup [call : sound.calls, raises : exceptions] :
        \E result \in {IF f = NoFault THEN sound
                        ELSE chat_with_bot(conversation_state,
                                           [store EXCEPT !.fault = f],
                                           current_user, query, answer)} :
            /\ conversation_state' = result.cs
            /\ store' = [result.db EXCEPT !.fault = NoFault]
            /\ fault' = f
            /\ last' = [user |-> current_user, query |-> query,
                        answer |-> answer,
                        stage |-> conversation_state.stage,
                        status |-> result.status,
                        response |-> result.response,
                        llm |-> result.llm, calls |-> result.calls,
                        depth |-> result.depth, detail |-> result.detail]
            /\ UNCHANGED <<reminder_queue, enqueued, delivered, returned,
                           previous, account_vars, booking_vars>>

ChatWithFault ==
    /\ ChatRequestWithFault(FaultUsers, FaultQueries, Exceptions)
    /\ UNCHANGED flow_vars

\* The stores the prescription flow is followed from.  They differ in the
\* reminders and in the prescriptions of patient p1, whose most recent
\* inactive appointment was with doctor d1.
ReminderOf(prescription_id, status) ==
    [prescription_id |-> prescription_id, status |-> status]

PrescriptionStores ==
    {InitialStore,
     \* every prescription has a reminder to activate, and rx3 is a
     \* prescription of the same doctor for patient p2
     [InitialStore EXCEPT
         !.prescriptions["rx3"].patient_id = "p2",
         !.prescriptions["rx3"].doctor_id = "d1",
         !.reminders = [r1 |-> ReminderOf("rx1", "inactive"),
                        r2 |-> ReminderOf("rx3", "inactive"),
                        r3 |-> ReminderOf("rx2", "inactive")]],
     \* rx1 has an active reminder already, and an inactive one
     [InitialStore EXCEPT
         !.reminders = [r1 |-> ReminderOf("rx1", "active"),
                        r2 |-> ReminderOf("rx1", "inactive"),
                        r3 |-> ReminderOf("rx2", "inactive")]],
     \* rx1 is not active, and its reminder is not either
     [InitialStore EXCEPT
         !.prescriptions["rx1"].is_active = FALSE,
         !.reminders = [r1 |-> ReminderOf("rx1", "inactive"),
                        r2 |-> ReminderOf("rx3", "inactive"),
                        r3 |-> ReminderOf("rx2", "inactive")]],
     \* both prescriptions of doctor d1 have an active reminder
     [InitialStore EXCEPT
         !.reminders = [r1 |-> ReminderOf("rx1", "active"),
                        r2 |-> ReminderOf("rx3", "inactive"),
                        r3 |-> ReminderOf("rx2", "active")]],
     \* doctor d1 has entered no prescription
     [InitialStore EXCEPT
         !.prescriptions["rx1"].doctor_id = "d3",
         !.prescriptions["rx2"].doctor_id = "d3"]}

\* The messages of the prescription flow
PrescriptionQueries ==
    {(* reset *) <<"r","e","s","e","t">>, (* OK *) <<"O","K">>, (* no *) <<"n","o">>, (* refill my pills *) <<"r","e","f","i","l","l"," ","m","y"," ","p","i","l","l","s">>, (* 09:00 am, 1:30 pm *) <<"0","9",":","0","0"," ","a","m",","," ","1",":","3","0"," ","p","m">>,
     (* 09:00 am, soon *) <<"0","9",":","0","0"," ","a","m",","," ","s","o","o","n">>}

\* The prescriptions of which a reminder became ACTIVE between two stores
ActivatedBetween(db, after) ==
    SelectSeq(PrescriptionIds,
        LAMBDA p : \E r \in DOMAIN db.reminders :
                       /\ db.reminders[r].prescription_id = p
                       /\ db.reminders[r].status # "active"
                       /\ after.reminders[r].status = "active")

\* A request of the prescription flow by one of the two patients, during
\* which an awaited function may raise.  The exceptions are those the stages
\* of the flow tell apart (lines 346, 451 and 510): a ValueError is handled
\* as any other exception there.
ChatAboutPrescriptions ==
    /\ ChatRequestWithFault(Patients, PrescriptionQueries,
                            {"HTTPException", "Exception"})
    /\ activated' = activated \o ActivatedBetween(store, store')
    /\ UNCHANGED suspended

\* The messages of the booking flow
BookingQueries ==
    {(* reset *) <<"r","e","s","e","t">>, (* 1 *) <<"1">>, (* 2 *) <<"2">>, (* Ann Lee *) <<"A","n","n"," ","L","e","e">>, (* bob ray *) <<"b","o","b"," ","r","a","y">>, (* I need a heart doctor *) <<"I"," ","n","e","e","d"," ","a"," ","h","e","a","r","t"," ","d","o","c","t","o","r">>}

\* A request of the booking flow by one of the two patients
ChatOfTwoUsers ==
    /\ ChatRequest(Patients, BookingQueries)
    /\ previous' = [user |-> last.user, response |-> last.response]
    /\ UNCHANGED <<booking_vars, flow_vars>>

\* enqueue_reminder(prescription), called by the reminder scheduler
EnqueueReminder ==
    /\ Len(enqueued) < MaxReminders
    /\ \E p \in DOMAIN store.prescriptions,
          completion \in {"take it now", "time for your dose", "failed"} :
           LET queue == enqueue_reminder(reminder_queue, store.prescriptions[p],
                                         completion)
           IN  /\ reminder_queue' = queue
               /\ enqueued' = Append(enqueued, queue[Len(queue)])
    /\ UNCHANGED <<conversation_state, store, last, delivered, returned,
                 previous, fault, account_vars, booking_vars, flow_vars>>

\* GET /chat/reminders
GetReminders ==
    LET result == get_reminders(reminder_queue)
    IN  /\ reminder_queue' = result.queue
        /\ returned' = result.reminders
        /\ delivered' = delivered \o result.reminders
        /\ UNCHANGED <<conversation_state, store, last, enqueued, previous,
                       fault, account_vars, booking_vars, flow_vars>>

Next == Chat

Spec == Init /\ [][Next]_vars

NextReminders == EnqueueReminder \/ GetReminders

SpecReminders == Init /\ [][NextReminders]_vars

NextTwoUsers == ChatOfTwoUsers

SpecTwoUsers == Init /\ [][NextTwoUsers]_vars

\* The usernames and passwords of the login requests: those of the rows, a
\* password set by an update, and ones no row has
Usernames == {"ann", "bob", "cy", "zed"}

Passwords == {"pw1", "pw2", "new", "", "wrong"}

\* One call of an authenticate function by the login route of its role
Authenticate(op, username, password, user) ==
    /\ outcome' = [op |-> op, key |-> username, input |-> password,
                   result |-> user]
    /\ UNCHANGED <<accounts, updates, chat_vars, reminder_vars, booking_vars,
                   flow_vars>>

AuthenticatePatient ==
    \E username \in Usernames, password \in Passwords :
        Authenticate("authenticate_patient", username, password,
                     authenticate_patient(accounts, username, password))

AuthenticateDoctor ==
    \E username \in Usernames, password \in Passwords :
        Authenticate("authenticate_doctor", username, password,
                     authenticate_doctor(accounts, username, password))

AuthenticateAdmin ==
    \E username \in Usernames, password \in Passwords :
        Authenticate("authenticate_admin", username, password,
                     authenticate_admin(accounts, username, password))

\* An update that supplies nothing
NothingSupplied ==
    [password |-> NotSupplied, first_name |-> NotSupplied,
     last_name |-> NotSupplied, phone_number |-> NotSupplied]

\* The PatientUpdate bodies of the model: nothing, one field, an empty
\* string beside a supplied field, every field
PatientUpdates ==
    LET none == [f \in DOMAIN NothingSupplied \cup {"dob"} |->
                    IF f = "dob" THEN NotSupplied ELSE NothingSupplied[f]]
    IN  {none,
         [none EXCEPT !.password = "new"],
         [none EXCEPT !.first_name = "Zoe"],
         [none EXCEPT !.last_name = "", !.phone_number = "999"],
         [none EXCEPT !.dob = "2000-03-03"],
         [password |-> "new", first_name |-> "Zoe", last_name |-> "Fox",
          phone_number |-> "999", dob |-> "2000-03-03"]}

\* The DoctorUpdate bodies of the model
DoctorUpdates ==
    LET none == [f \in DOMAIN NothingSupplied \cup {"specialization"} |->
                    IF f = "specialization" THEN NotSupplied
                    ELSE NothingSupplied[f]]
    IN  {none,
         [none EXCEPT !.password = "new"],
         [none EXCEPT !.last_name = "Fox"],
         [none EXCEPT !.first_name = "", !.specialization = "Dermatologist"],
         [password |-> "pw1", first_name |-> "Zoe", last_name |-> "Fox",
          phone_number |-> "999", specialization |-> "Dermatologist"]}

\* The ids the update routes are called with: the rows, and an id of no row
PatientIds == {"p1", "p2", "p9"}

DoctorAccountIds == {"d1", "d3", "d9"}

\* One call of update_patient
UpdatePatient ==
    /\ updates < MaxUpdates
    /\ \E patient_id \in PatientIds, patient_update \in PatientUpdates :
           LET result == update_patient(accounts, patient_id, patient_update)
           IN  /\ accounts' = result.db
               /\ outcome' = [op |-> "update_patient", key |-> patient_id,
                              input |-> patient_update,
                              result |-> result.raises]
    /\ updates' = updates + 1
    /\ UNCHANGED <<chat_vars, reminder_vars, booking_vars, flow_vars>>

\* One call of update_doctor
UpdateDoctor ==
    /\ updates < MaxUpdates
    /\ \E doctor_id \in DoctorAccountIds, doctor_update \in DoctorUpdates :
           LET result == update_doctor(accounts, doctor_id, doctor_update)
           IN  /\ accounts' = result.db
               /\ outcome' = [op |-> "update_doctor", key |-> doctor_id,
                              input |-> doctor_update,
                              result |-> result.raises]
    /\ updates' = updates + 1
    /\ UNCHANGED <<chat_vars, reminder_vars, booking_vars, flow_vars>>

\* The patient whose bookings meet those of other clients
SharingUsers == {"p1"}

\* A request of the booking flow handled with no other client in between.
\* The reply that asks for a number lists the open slots of the doctor.
ChatWhileShared ==
    /\ pending = NoPending
    /\ ChatRequest(SharingUsers, BookingQueries)
    /\ displayed' = IF last'.response = "available_time_slots"
                    THEN get_available_time_slots(
                             conversation_state'.selected_doctor, store)
                    ELSE displayed
    /\ UNCHANGED <<previous, pending, flow_vars>>

\* A slot-number request that has fetched the list and found its slot
\* (lines 160-170) and now awaits update_time_slot_with_patient (line 174)
SlotRequestAwaitsReservation ==
    /\ pending = NoPending
    /\ conversation_state.stage = "awaiting_slot_selection"
    /\ \E current_user \in SharingUsers, query \in BookingQueries :
           LET selected == select_slot(conversation_state, store,
                                       UserMessage[query])
           IN  /\ UserMessage[query] \notin reset_words
               /\ ~selected.done
               /\ pending' = [user |-> current_user, query |-> query,
                              selected_slot |-> selected.selected_slot]
    /\ UNCHANGED <<chat_vars, reminder_vars, account_vars, displayed,
                   flow_vars>>

\* The request goes on from line 174 to its reply
SlotRequestReserves ==
    /\ pending # NoPending
    /\ LET result == reserve_slot(conversation_state, store, pending.user,
                                  pending.selected_slot)
       IN  /\ conversation_state' = result.cs
           /\ store' = result.db
           /\ last' = [user |-> pending.user, query |-> pending.query,
                       answer |-> None, stage |-> "awaiting_slot_selection",
                       status |-> result.status, response |-> result.response,
                       llm |-> result.llm, calls |-> result.calls,
                       depth |-> result.depth, detail |-> result.detail]
    /\ pending' = NoPending
    /\ UNCHANGED <<previous, fault, reminder_vars, account_vars, displayed,
                   flow_vars>>

\* Another client of the store books an open slot: update_time_slot_status
OtherBooking ==
    /\ \E time_slot_id \in DOMAIN store.time_slots :
           /\ store.time_slots[time_slot_id].status = "available"
           /\ store' = update_time_slot_status(store, time_slot_id, "booked")
    /\ UNCHANGED <<conversation_state, last, previous, fault, reminder_vars,
                   account_vars, booking_vars, flow_vars>>

NextFaults == ChatWithFault

NextShared ==
    \/ ChatWhileShared
    \/ SlotRequestAwaitsReservation
    \/ SlotRequestReserves
    \/ OtherBooking

SpecShared == Init /\ [][NextShared]_vars

NextAccounts ==
    \/ AuthenticatePatient
    \/ AuthenticateDoctor
    \/ AuthenticateAdmin
    \/ UpdatePatient
    \/ UpdateDoctor

SpecAccounts == Init /\ [][NextAccounts]_vars

SpecFaults == Init /\ [][NextFaults]_vars

\* The handler starts with one of the stores of the prescription flow
InitPrescriptions ==
    /\ store \in PrescriptionStores
    /\ InitialConversation

\* The stages of the reminder flow, and what a user who follows the flow
\* answers in each: yes to the activation prompt, yes or no to the update
\* prompt, and times when asked for them
FlowStages ==
    {"activate_reminders", "update_reminder_prompt",
     "collect_new_reminder_times"}

FlowAnswers ==
    [activate_reminders |-> {(* OK *) <<"O","K">>},
     update_reminder_prompt |-> {(* OK *) <<"O","K">>, (* no *) <<"n","o">>},
     collect_new_reminder_times |-> {(* 09:00 am, 1:30 pm *) <<"0","9",":","0","0"," ","a","m",","," ","1",":","3","0"," ","p","m">>}]

\* A patient answers the prompt of the reminder flow; no call fails
AnswersThePrompt ==
    /\ conversation_state.stage \in FlowStages
    /\ ChatRequest(Patients, FlowAnswers[conversation_state.stage])
    /\ activated' = activated \o ActivatedBetween(store, store')
    /\ UNCHANGED <<previous, booking_vars, suspended>>

\* Outside the flow, a patient asks about prescriptions, ends the
\* conversation about them, or starts over
AsksAboutPrescriptions ==
    /\ conversation_state.stage \notin FlowStages
    /\ ChatRequest(Patients, {(* refill my pills *) <<"r","e","f","i","l","l"," ","m","y"," ","p","i","l","l","s">>, (* OK *) <<"O","K">>, (* reset *) <<"r","e","s","e","t">>})
    /\ activated' = activated \o ActivatedBetween(store, store')
    /\ UNCHANGED <<previous, booking_vars, suspended>>

NextPrescriptions == ChatAboutPrescriptions


SpecPrescriptions == InitPrescriptions /\ [][NextPrescriptions]_vars

\* The messages of the requests that interleave, and the patient whose
\* request is suspended
InterleavedQueries ==
    {(* reset *) <<"r","e","s","e","t">>, (* 1 *) <<"1">>, (* Ann Lee *) <<"A","n","n"," ","L","e","e">>, (* I need a heart doctor *) <<"I"," ","n","e","e","d"," ","a"," ","h","e","a","r","t"," ","d","o","c","t","o","r">>}

\* What `last` records of a request that was suspended
Resumed(request, stage, result) ==
    [user |-> request.user, query |-> request.query, answer |-> None,
     stage |-> stage, status |-> result.status, response |-> result.response,
     llm |-> result.llm, calls |-> result.calls, depth |-> result.depth,
     detail |-> result.detail]

\* A request handled from its first line to its response, while another
\* request is suspended or while none is.  The suspended request sees
\* nothing of it but the conversation state and the store it leaves.
ChatWhileSuspended ==
    /\ ChatRequest(Patients, InterleavedQueries)
    /\ suspended' = IF suspended # NotSuspended
                         /\ last'.response = "conversation_reset"
                     THEN [suspended EXCEPT !.reset_answered = TRUE]
                     ELSE suspended
    /\ UNCHANGED <<previous, booking_vars, activated>>

\* A request that names a candidate doctor reaches the await of line 91
SuspendsAtLine91 ==
    /\ suspended = NotSuspended
    /\ conversation_state.stage = "awaiting_doctor_selection"
    /\ \E current_user \in SharingUsers, query \in InterleavedQueries :
           LET selected == select_doctor(conversation_state, store,
                                         UserMessage[query])
           IN  /\ UserMessage[query] \notin reset_words
               /\ ~selected.done
               /\ suspended' = [at |-> "line 91", user |-> current_user,
                                query |-> query, doctor |-> selected.doctor,
                                reset_answered |-> FALSE]
    /\ UNCHANGED <<chat_vars, reminder_vars, account_vars, booking_vars,
                   activated>>

\* The request goes on from line 91 to its response
ResumesAtLine91 ==
    /\ suspended.at = "line 91"
    /\ LET result == offer_slots(conversation_state, store, suspended.doctor)
       IN  /\ conversation_state' = result.cs
           /\ store' = result.db
           /\ last' = Resumed(suspended, "awaiting_doctor_selection", result)
    /\ suspended' = NotSuspended
    /\ UNCHANGED <<previous, fault, reminder_vars, account_vars, booking_vars,
                   activated>>

\* A request with the number of an open slot reaches the await of line 174
SuspendsAtLine174 ==
    /\ suspended = NotSuspended
    /\ conversation_state.stage = "awaiting_slot_selection"
    /\ \E current_user \in SharingUsers, query \in InterleavedQueries :
           LET selected == select_slot(conversation_state, store,
                                       UserMessage[query])
           IN  /\ UserMessage[query] \notin reset_words
               /\ ~selected.done
               /\ suspended' = [at |-> "line 174", user |-> current_user,
                                query |-> query,
                                selected_slot |-> selected.selected_slot,
                                reset_answered |-> FALSE]
    /\ UNCHANGED <<chat_vars, reminder_vars, account_vars, booking_vars,
                   activated>>

\* The request goes on from line 174 to its response
ResumesAtLine174 ==
    /\ suspended.at = "line 174"
    /\ LET result == reserve_slot(conversation_state, store, suspended.user,
                                  suspended.selected_slot)
       IN  /\ conversation_state' = result.cs
           /\ store' = result.db
           /\ last' = Resumed(suspended, "awaiting_slot_selection", result)
    /\ suspended' = NotSuspended
    /\ UNCHANGED <<previous, fault, reminder_vars, account_vars, booking_vars,
                   activated>>

NextInterleaved ==
    \/ ChatWhileSuspended
    \/ SuspendsAtLine91
    \/ ResumesAtLine91
    \/ SuspendsAtLine174
    \/ ResumesAtLine174

SpecInterleaved == Init /\ [][NextInterleaved]_vars

NextFlow ==
    \/ AsksAboutPrescriptions
    \/ AnswersThePrompt

\* The user goes on answering while the flow prompts: the hypothesis of the
\* flow's termination.  Each request is handled to its response.
SpecFlow ==
    InitPrescriptions /\ [][NextFlow]_vars /\ WF_vars(AnswersThePrompt)

(***************************************************************************)
(* The claims                                                              *)
(***************************************************************************)
\* The ten labels the specification enumerates for the stage
EnumeratedStages ==
    {"initial", "general", "awaiting_doctor_selection",
     "awaiting_slot_selection", "check_inactive_appointments",
     "waiting_for_exit", "activate_reminders", "update_reminder_prompt",
     "collect_new_reminder_times", "booking_confirmed"}

\* Every value the code assigns to the stage
AssignedStages == EnumeratedStages \cup {"reset"}

ResetQueries == {q \in Queries : UserMessage[q] \in reset_words}

\* The last request was a reset sent by an authenticated user
ResetHandled ==
    /\ last.status # 0
    /\ last.user \in Patients
    /\ last.query \in ResetQueries

\* A list payload is absent or empty
NoList(key) ==
    key \in DOMAIN conversation_state => conversation_state[key] = <<>>

\* C1: whatever the stage is, a message of an authenticated user that is
\* "reset" or "start over" once trimmed and lower-cased leaves the stage
\* general, and makes no store call and no call of the completion service.
\* The first conjunct is about the reset that was just handled, the second
\* about a reset arriving in this state with any value of the stage.
C1_ResetFromAnyStage ==
    /\ ResetHandled =>
           /\ conversation_state.stage = "general"
           /\ last.status = 200
           /\ last.calls = {}
           /\ ~last.llm
    /\ \A stage \in AssignedStages, current_user \in Patients,
          query \in ResetQueries :
           LET result == chat_with_bot(Put(conversation_state, "stage", stage),
                                       store, current_user, query, None)
           IN  /\ result.cs.stage = "general"
               /\ result.status = 200
               /\ result.db = store
               /\ result.calls = {}
               /\ ~result.llm

\* A reset written with capitals and blanks was handled in the middle of a
\* booking
C1_Witness ==
    /\ ResetHandled
    /\ last.query = (*   Start Over  *) <<" "," ","S","t","a","r","t"," ","O","v","e","r"," ">>
    /\ last.stage = "awaiting_slot_selection"
    /\ conversation_state.stage = "general"

\* C2: after a reset no transient payload survives: the candidate doctor
\* list, the selected doctor, the pending prescription list and the active
\* prescription id are absent or empty.
C2_ResetClearsPayloads ==
    ResetHandled =>
        /\ NoList("doctors")
        /\ "selected_doctor" \notin DOMAIN conversation_state
        /\ NoList("prescriptions")
        /\ "prescription_id" \notin DOMAIN conversation_state

\* A reset was handled and the pending prescriptions and the active
\* prescription id are still there
C2_Witness ==
    /\ ResetHandled
    /\ "prescriptions" \in DOMAIN conversation_state
    /\ conversation_state.prescriptions # <<>>
    /\ "prescription_id" \in DOMAIN conversation_state

\* C3 as stated: the stage is always one of the ten enumerated labels.
C3_StageIsEnumerated == conversation_state.stage \in EnumeratedStages

\* C3, amended: the stage is always one of the ten enumerated labels or
\* "reset", the label an exit word leaves behind in waiting_for_exit.
C3_StageIsAssigned == conversation_state.stage \in AssignedStages

\* An exit word was handled in waiting_for_exit
C3_Witness ==
    /\ last.stage = "waiting_for_exit"
    /\ last.response = "anything_else"
    /\ conversation_state.stage = "reset"

\* The open slots of a doctor, and the n-th of them in the order of the table
OpenSlots(doctor) ==
    {s \in DOMAIN store.time_slots :
        /\ store.time_slots[s].doctor_id = doctor
        /\ store.time_slots[s].status = "available"}

RowOf(s) == CHOOSE i \in 1..Len(TimeSlotIds) : TimeSlotIds[i] = s

NthOpenSlot(doctor, n) ==
    CHOOSE s \in OpenSlots(doctor) :
        Cardinality({t \in OpenSlots(doctor) : RowOf(t) <= RowOf(s)}) = n

\* This step reserves slot s for the sender of the message and changes no
\* other slot
Reserves(s) ==
    /\ store'.time_slots[s].patient_id = last'.user
    /\ store'.time_slots[s].status # "available"
    /\ \A t \in DOMAIN store.time_slots \ {s} :
           store'.time_slots[t] = store.time_slots[t]

\* The message of this step is a number of the list of open slots of the
\* selected doctor
ValidSlotNumber ==
    LET n == IntOf[UserMessage[last'.query]]
    IN  /\ n.ok
        /\ n.value \in 1..Cardinality(OpenSlots(conversation_state.selected_doctor))

\* C4: the conversation state belongs to no user.  When user A's message
\* leaves the stage awaiting_slot_selection, a valid slot number sent next by
\* another authenticated user B reserves that slot of the doctor A selected
\* for B, and a reset sent by B puts the stage to general and removes the
\* selected doctor.
C4_NoIsolationBetweenUsers ==
    [][(/\ conversation_state.stage = "awaiting_slot_selection"
        /\ last.user \in Patients
        /\ last'.user \in Patients
        /\ last'.user # last.user) =>
           /\ ValidSlotNumber =>
                  /\ Reserves(NthOpenSlot(conversation_state.selected_doctor,
                                  IntOf[UserMessage[last'.query]].value))
                  /\ conversation_state'.stage = "booking_confirmed"
           /\ last'.query \in ResetQueries =>
                  /\ conversation_state'.stage = "general"
                  /\ "selected_doctor" \notin DOMAIN conversation_state'
      ]_vars

\* Patient p1 selected a doctor, and the slot number patient p2 sent next
\* booked a slot of that doctor for p2
C4_Witness ==
    /\ previous = [user |-> "p1", response |-> "available_time_slots"]
    /\ last.user = "p2"
    /\ last.stage = "awaiting_slot_selection"
    /\ last.response = "appointment_booked"
    /\ \E s \in DOMAIN store.time_slots :
           /\ store.time_slots[s].patient_id = "p2"
           /\ store.time_slots[s].doctor_id = conversation_state.selected_doctor

\* C5: the store changes only through the delegated calls, each in its own
\* stage: time slots only in awaiting_slot_selection, reminders and the
\* prescriptions' active flag only in activate_reminders, reminder times only
\* in collect_new_reminder_times; a reset, an unauthenticated request and a
\* message handled in any other stage leave the store unchanged.
C5_StoreChangesOnlyInItsStage ==
    [][LET stage == conversation_state.stage
       IN  /\ store'.time_slots # store.time_slots =>
                  /\ stage = "awaiting_slot_selection"
                  /\ "update_time_slot_with_patient" \in last'.calls
                  /\ store' = [store EXCEPT !.time_slots = store'.time_slots]
           /\ (\/ store'.reminders # store.reminders
               \/ store'.prescriptions # store.prescriptions) =>
                  /\ stage = "activate_reminders"
                  /\ "activate_reminders_for_prescription" \in last'.calls
                  /\ store'.time_slots = store.time_slots
                  /\ store'.reminder_times = store.reminder_times
           /\ store'.reminder_times # store.reminder_times =>
                  /\ stage = "collect_new_reminder_times"
                  /\ "update_reminder_times" \in last'.calls
                  /\ store' = [store EXCEPT !.reminder_times = store'.reminder_times]
           /\ (\/ stage \notin {"awaiting_slot_selection", "activate_reminders",
                                "collect_new_reminder_times"}
               \/ last'.query \in ResetQueries
               \/ last'.user \notin Patients) =>
                  store' = store
      ]_vars

\* Reminder times were just rewritten, after a booking and an activation
C5_Witness ==
    /\ last.stage = "collect_new_reminder_times"
    /\ "update_reminder_times" \in last.calls
    /\ store.reminder_times # InitialStore.reminder_times
    /\ store.time_slots # InitialStore.time_slots
    /\ store.reminders # InitialStore.reminders
    /\ store.prescriptions # InitialStore.prescriptions

\* C6: in awaiting_slot_selection a message of an authenticated user that is
\* an integer n between 1 and the number of open slots of the selected doctor
\* reserves the n-th of these slots for the sender and leaves the stage
\* booking_confirmed; and no step of the chat changes a slot that was not
\* open or does not belong to the selected doctor.
C6_BookingAnOpenSlot ==
    [][/\ (/\ conversation_state.stage = "awaiting_slot_selection"
           /\ last'.user \in Patients
           /\ ValidSlotNumber) =>
              /\ Reserves(NthOpenSlot(conversation_state.selected_doctor,
                              IntOf[UserMessage[last'.query]].value))
              /\ conversation_state'.stage = "booking_confirmed"
              /\ last'.response = "appointment_booked"
       /\ \A s \in DOMAIN store.time_slots :
              store'.time_slots[s] # store.time_slots[s] =>
                  /\ store.time_slots[s].status = "available"
                  /\ conversation_state.stage = "awaiting_slot_selection"
                  /\ store.time_slots[s].doctor_id
                         = conversation_state.selected_doctor
      ]_vars

\* The second open slot of doctor d1, the third row of the table, was booked
\* with the message "2" while the slot of the other doctor is still open
C6_Witness ==
    /\ last.stage = "awaiting_slot_selection"
    /\ last.query = (* 2 *) <<"2">>
    /\ last.response = "appointment_booked"
    /\ conversation_state.stage = "booking_confirmed"
    /\ store.time_slots["s3"].patient_id = last.user
    /\ store.time_slots["s1"].status = "available"
    /\ store.time_slots["s2"].status = "available"

\* In awaiting_slot_selection, a message of an authenticated user, not one
\* of `excluded`, that is not an integer, or an integer that is no number of
\* the list of open slots, reserves nothing, changes neither the stage nor
\* the selected doctor, and is answered by the prompt of its case.
RejectsSlotInput(excluded) ==
    LET n == IntOf[UserMessage[last'.query]]
    IN  (/\ conversation_state.stage = "awaiting_slot_selection"
         /\ last'.user \in Patients
         /\ UserMessage[last'.query] \notin excluded
         /\ ~ValidSlotNumber) =>
            /\ store' = store
            /\ conversation_state'.stage = "awaiting_slot_selection"
            /\ conversation_state'.selected_doctor
                   = conversation_state.selected_doctor
            /\ last'.response = IF n.ok THEN "invalid_slot_number"
                                ELSE "enter_valid_number"

\* C7 as stated: every message that is no valid slot number is rejected so.
C7_RejectedSlotInput == [][RejectsSlotInput({})]_vars

\* C7, amended: every message that is no valid slot number and is not "reset"
\* or "start over" is rejected so.
C7_RejectedSlotInputButReset == [][RejectsSlotInput(reset_words)]_vars

\* Doctor d1 has one open slot left and the message "2" was refused
C7_Witness ==
    /\ last.stage = "awaiting_slot_selection"
    /\ last.query = (* 2 *) <<"2">>
    /\ last.response = "invalid_slot_number"
    /\ conversation_state.stage = "awaiting_slot_selection"
    /\ conversation_state.selected_doctor = "d1"
    /\ Cardinality(OpenSlots("d1")) = 1

\* The four cases of the classification of a message and a completion, in
\* the order of the claim
FollowsPriority(user_message, answer) ==
    LET result == get_chatbot_response(user_message, answer)
        explicit == extract_specialization_from_user_message(user_message)
        doctor == needs_doctor(user_message, answer)
        prescription == needs_prescription_check(user_message, answer)
        suggest_doctor == Get(result, "suggest_doctor")
        check_prescriptions == Get(result, "check_prescriptions")
    IN  /\ result.response = answer
        /\ ~(suggest_doctor /\ check_prescriptions)
        /\ IF explicit # None
           THEN suggest_doctor /\ result.specialization = strip(explicit)
           ELSE IF doctor
           THEN suggest_doctor
           ELSE IF prescription
           THEN check_prescriptions
           ELSE ~suggest_doctor /\ ~check_prescriptions

\* Every message and every completion of the model is classified so
ClassificationFollowsPriority ==
    \A user_message \in UserMessages, answer \in Answers :
        FollowsPriority(user_message, answer)

\* What the handler does with each outcome of the classification
DoctorReplies == {"available_doctors", "no_doctors_found"}

PrescriptionReplies ==
    {"no_prescriptions", "no_new_prescriptions", "all_have_active_reminders",
     "found_prescriptions"}

\* C8: the classification of a message of general chat follows a fixed
\* priority: a specialist keyword in the message gives suggest_doctor with
\* that specialization; otherwise a doctor indicator in the message or in the
\* completion gives suggest_doctor; otherwise a prescription keyword in the
\* message or in the completion gives check_prescriptions; otherwise
\* neither; and never both.  The request that was just classified was
\* answered by the branch of its case.
C8_ClassificationPriority ==
    /\ ClassificationFollowsPriority
    /\ (last.llm /\ last.status = 200) =>
           LET user_message == UserMessage[last.query]
               explicit ==
                   extract_specialization_from_user_message(user_message) # None
               doctor == needs_doctor(user_message, last.answer)
               prescription ==
                   needs_prescription_check(user_message, last.answer)
           IN  IF explicit \/ doctor
               THEN last.response \in DoctorReplies
               ELSE IF prescription
               THEN last.response \in PrescriptionReplies
               ELSE last.response = "chatbot_answer"

\* A message with a prescription keyword got a completion with a doctor
\* indicator, and the doctor lookup was made, not the prescription check
C8_Witness ==
    /\ last.llm
    /\ last.query = (* refill my pills *) <<"r","e","f","i","l","l"," ","m","y"," ","p","i","l","l","s">>
    /\ last.answer = (* You should see a doctor about your chest pain. *) <<"Y","o","u"," ","s","h","o","u","l","d"," ","s","e","e"," ","a"," ","d","o","c","t","o","r"," ","a","b","o","u","t"," ","y","o","u","r"," ","c","h","e","s","t"," ","p","a","i","n",".">>
    /\ last.response = "available_doctors"
    /\ conversation_state.stage = "awaiting_doctor_selection"

\* C9: a message is forwarded to the completion service only in the stages
\* initial, general and booking_confirmed; in every other enumerated stage no
\* message is.
C9_CompletionOnlyInGeneralChat ==
    /\ last.llm => last.stage \in {"initial", "general", "booking_confirmed"}
    /\ last.stage \in EnumeratedStages
                          \ {"initial", "general", "booking_confirmed"} =>
           ~last.llm

\* The answer "no" to the offer to activate reminders went to the completion
\* service
C9_Witness ==
    /\ last.stage = "activate_reminders"
    /\ last.query = (* no *) <<"n","o">>
    /\ last.llm

\* C10: one call of get_reminders returns the whole queue in the order of
\* enqueueing and leaves it empty; so what was delivered, followed by what
\* is still queued, is always what was enqueued: each reminder is delivered
\* once, in order, and never twice.
C10_GetRemindersDrainsTheQueue ==
    /\ [](delivered \o reminder_queue = enqueued)
    /\ [][enqueued' = enqueued =>
              /\ returned' = reminder_queue
              /\ reminder_queue' = <<>>
              /\ delivered' = delivered \o reminder_queue
         ]_vars

\* A call returned two reminders at once, after an earlier call had
\* returned another
C10_Witness ==
    /\ Len(returned) = 2
    /\ Len(delivered) = 3
    /\ reminder_queue = <<>>
    /\ returned = SubSeq(enqueued, 2, 3)




\* C11: a request whose current user is not resolved (None, or an object
\* without user_id) is answered with 401 "Could not authenticate user" and
\* changes nothing: the conversation state (stage and payloads) and the store
\* are as before, also for the message "reset", and neither a store function
\* nor the text-completion service is called.
C11_UnresolvedUserChangesNothing ==
    [][last'.user \notin Patients
       => /\ last'.status = 401
          /\ last'.response = "Could not authenticate user"
          /\ conversation_state' = conversation_state
          /\ store' = store
          /\ last'.calls = {}
          /\ ~last'.llm]_vars

\* "reset" from a user without user_id while a doctor is selected
C11_Witness ==
    /\ last.user = WithoutUserId
    /\ last.query \in ResetQueries
    /\ last.status = 401
    /\ last.stage = "awaiting_slot_selection"
    /\ conversation_state.stage = "awaiting_slot_selection"
    /\ "selected_doctor" \in DOMAIN conversation_state

\* The failures a stage answers itself, by the except clauses inside the
\* stage handling: ValueError in slot selection (lines 194 and 200),
\* HTTPException while activating (line 346), any exception while the new
\* times are collected (line 451), HTTPException of the doctor lookup
\* (line 471).
AnsweredByStage(stage, f) ==
    \/ /\ stage = "awaiting_slot_selection"
       /\ f.call \in {"get_available_time_slots",
                      "update_time_slot_with_patient"}
       /\ f.raises = "ValueError"
    \/ /\ f.call \in {"activate_reminders_for_prescription",
                      "mark_prescription_inactive"}
       /\ f.raises = "HTTPException"
    \/ f.call = "update_reminder_times"
    \/ /\ f.call = "get_doctors_by_specialization"
       /\ f.raises = "HTTPException"

\* A stage whose payload is missing, and the messages that make it read the
\* payload outside an except clause of its own
MissingPayload ==
    {<<"awaiting_doctor_selection", (* Ann Lee *) <<"A","n","n"," ","L","e","e">>>>,
     <<"awaiting_slot_selection", (* 1 *) <<"1">>>>,
     <<"activate_reminders", (* OK *) <<"O","K">>>>,
     <<"update_reminder_prompt", (* no *) <<"n","o">>>>}

MissingPayloadIs500 ==
    \A missing \in MissingPayload :
        LET result == chat_with_bot([stage |-> missing[1]], InitialStore, "p1",
                                    missing[2], None)
        IN  /\ result.status = 500
            /\ result.response = CHATBOT_FAILED_COMMUNICATION

\* C12: a failure inside the stage handling that no except clause of a stage
\* answers (a store function raising, the text completion raising, a payload
\* missing) ends the request with HTTP 500 and the detail "Failed to
\* communicate with the chatbot.", never with a chat reply; so does a failure
\* inside the nested call that checks the prescriptions.
C12_UnansweredFailureIs500 ==
    /\ (/\ fault # NoFault \/ last.answer = CompletionError
        /\ ~AnsweredByStage(last.stage, fault))
           => /\ last.status = 500
              /\ last.response = CHATBOT_FAILED_COMMUNICATION
    /\ MissingPayloadIs500

\* The store fails inside the nested call of a message about prescriptions
C12_Witness ==
    /\ fault.call = "select_prescription"
    /\ last.stage = "general"
    /\ last.llm
    /\ last.status = 500
    /\ conversation_state.stage = "check_inactive_appointments"

\* The table each authenticate function reads
AuthenticatedTable ==
    [authenticate_patient |-> "patients", authenticate_doctor |-> "doctors",
     authenticate_admin |-> "admins"]

\* C13: authenticate_patient, authenticate_doctor and authenticate_admin
\* return the stored user of their table whose username is the given one and
\* whose stored hash verifies the given password; when there is no such user
\* (unknown username, wrong password) they return None; they never return
\* another user, and they leave the store as it was.
C13_AuthenticateReturnsTheVerifiedUser ==
    [][outcome'.op \in DOMAIN AuthenticatedTable
       => LET table == accounts[AuthenticatedTable[outcome'.op]]
              verified ==
                  {id \in DOMAIN table :
                      /\ table[id].username = outcome'.key
                      /\ verify_password(outcome'.input,
                                         table[id].hashed_password)}
          IN  /\ accounts' = accounts
              /\ verified # {} => outcome'.result \in verified
              /\ verified = {} => outcome'.result = NoUser]_vars

\* Doctor ann logs in with the password an update gave the row; patient ann
\* has the same username and another password
C13_Witness ==
    /\ outcome.op = "authenticate_doctor"
    /\ outcome.key = "ann"
    /\ outcome.input = "new"
    /\ outcome.result = "d1"
    /\ ~verify_password("new", accounts.patients["p1"].hashed_password)

\* The table each update function writes, and what it raises for an id of
\* no row
UpdatedTable == [update_patient |-> "patients", update_doctor |-> "doctors"]

NotFound ==
    [update_patient |-> "Patient not found", update_doctor |-> "Doctor not found"]

SelectsDoctor(excluded) ==
    conversation_state.stage = "awaiting_doctor_selection" =>
        LET named == {conversation_state.doctors[i] :
                         i \in {j \in 1..Len(conversation_state.doctors) :
                                   UserMessage[last'.query]
                                       = FullName[conversation_state.doctors[j]]}}
            bookable == {d \in named : OpenSlots(d) # {}}
        IN  /\ conversation_state'.stage = "awaiting_slot_selection"
                   => /\ bookable # {}
                      /\ conversation_state'.selected_doctor \in bookable
            /\ (bookable = {} /\ UserMessage[last'.query] \notin excluded)
                   => conversation_state' = conversation_state

\* C15 as stated: in awaiting_doctor_selection the stage becomes
\* awaiting_slot_selection only when the trimmed, lower-cased message is the
\* lower-cased full name of a candidate with an available slot, then the
\* selected doctor; for every other message the stage stays, the candidate
\* list is unchanged and no selected doctor is set.
C15_DoctorSelection == [][SelectsDoctor({})]_vars

\* C15, amended: the same, for every other message except "reset" and
\* "start over", which end the selection.
C15_DoctorSelectionButReset == [][SelectsDoctor(reset_words)]_vars

\* "bob ray" selected candidate Bob Ray, who has an open slot
C15_Witness ==
    /\ last.stage = "awaiting_doctor_selection"
    /\ last.query = (* bob ray *) <<"b","o","b"," ","r","a","y">>
    /\ last.response = "available_time_slots"
    /\ conversation_state.stage = "awaiting_slot_selection"
    /\ conversation_state.selected_doctor = "d2"
    /\ OpenSlots("d2") # {}

\* C16: the stage becomes awaiting_doctor_selection only in a general-chat
\* request whose classification is suggest_doctor and whose doctor lookup
\* returned a non-empty list, which becomes the candidate list; when the
\* lookup returns no doctor, or raises an HTTP error, the stage and the
\* candidate list stay as they were; so the candidate list is non-empty
\* whenever the stage is awaiting_doctor_selection.
C16_DoctorSelectionHasCandidates ==
    [][LET classified == last'.llm /\ last'.answer \in Answers
           suggests ==
               /\ classified
               /\ Get(ChatbotResponse[UserMessage[last'.query]][last'.answer],
                      "suggest_doctor")
           lookup ==
               DoctorsBySpecialization[
                   ChatbotResponse[UserMessage[last'.query]][last'.answer]
                       .specialization]
           lookup_raises ==
               IF fault'.call = "get_doctors_by_specialization"
               THEN fault'.raises ELSE "none"
       IN  /\ (/\ conversation_state'.stage = "awaiting_doctor_selection"
               /\ conversation_state.stage # "awaiting_doctor_selection")
                  => /\ suggests
                     /\ lookup_raises = "none"
                     /\ lookup # <<>>
                     /\ conversation_state'.doctors = lookup
           /\ (suggests /\ (lookup = <<>> \/ lookup_raises = "HTTPException"))
                  => conversation_state' = conversation_state
           /\ conversation_state'.stage = "awaiting_doctor_selection"
                  => /\ "doctors" \in DOMAIN conversation_state'
                     /\ conversation_state'.doctors # <<>>]_vars

\* After a booking, a request for a doctor whose lookup raised an HTTP error
C16_Witness ==
    /\ fault = [call |-> "get_doctors_by_specialization",
                raises |-> "HTTPException"]
    /\ last.response = "no_doctors_available"
    /\ last.stage = "booking_confirmed"
    /\ conversation_state.stage = "booking_confirmed"
    /\ conversation_state.doctors # <<>>

\* C17: with requests handled one at a time, whenever the stage is
\* awaiting_slot_selection a selected doctor is present and is one of the
\* candidate doctors, and no message handled in that stage ends in an error
\* for want of it.
C17_SelectedDoctorIsACandidate ==
    /\ conversation_state.stage = "awaiting_slot_selection"
           => /\ "selected_doctor" \in DOMAIN conversation_state
              /\ "doctors" \in DOMAIN conversation_state
              /\ \E i \in 1..Len(conversation_state.doctors) :
                     conversation_state.doctors[i]
                         = conversation_state.selected_doctor
    /\ last.stage = "awaiting_slot_selection" => last.status \in {200, 401}

\* A second selection, made after a booking with another doctor: a number
\* was sent and the selected doctor is the candidate chosen last
C17_Witness ==
    /\ last.stage = "awaiting_slot_selection"
    /\ IntOf[UserMessage[last.query]].ok
    /\ last.status = 200
    /\ conversation_state.stage = "awaiting_slot_selection"
    /\ conversation_state.selected_doctor = "d2"
    /\ store.time_slots["s1"].status = "booked"

\* C18: a message handled in stage booking_confirmed gets the reply, makes
\* the store calls and the completion call, and leaves the store and the
\* payloads that the same message, with the same completion and the same
\* store, gets, makes and leaves in stage general and in stage initial; the
\* stage it leaves is the same too, or in each case the stage it started in.
C18_BookingConfirmedIsGeneralChat ==
    [][conversation_state.stage = "booking_confirmed"
       => \A stage \in {"general", "initial"} :
              \A result \in {chat_with_bot(Put(conversation_state, "stage",
                                                stage),
                                            store, last'.user, last'.query,
                                            last'.answer)} :
                  /\ result.status = last'.status
                  /\ result.response = last'.response
                  /\ result.llm = last'.llm
                  /\ result.calls = last'.calls
                  /\ result.db = store'
                  /\ \/ result.cs = conversation_state'
                     \/ /\ conversation_state'.stage = "booking_confirmed"
                        /\ result.cs = Put(conversation_state', "stage", stage)]_vars

\* After a booking, a message asking for a doctor was answered with the
\* candidates, as in general chat
C18_Witness ==
    /\ last.stage = "booking_confirmed"
    /\ last.response = "available_doctors"
    /\ conversation_state.stage = "awaiting_doctor_selection"
    /\ \E s \in DOMAIN store.time_slots : store.time_slots[s].status = "booked"

\* C19: when the reservation of the chosen slot is refused because the slot
\* was taken since the list was fetched, the reply says the slot is no longer
\* available and confirms no booking, no slot is reserved, and the stage is
\* still awaiting_slot_selection with the same selected doctor.
C19_RefusedReservation ==
    [][(/\ pending # NoPending
        /\ pending' = NoPending
        /\ store.time_slots[pending.selected_slot].status # "available")
          => /\ last'.status = 200
             /\ last'.response = "slot_no_longer_available"
             /\ store' = store
             /\ conversation_state' = conversation_state
             /\ conversation_state'.stage = "awaiting_slot_selection"
             /\ "selected_doctor" \in DOMAIN conversation_state']_vars

\* The slot the patient chose went to another client before the reservation
C19_Witness ==
    /\ last.response = "slot_no_longer_available"
    /\ last.query = (* 1 *) <<"1">>
    /\ pending = NoPending
    /\ conversation_state.stage = "awaiting_slot_selection"
    /\ conversation_state.selected_doctor = "d1"
    /\ store.time_slots["s1"].status = "booked"
    /\ store.time_slots["s1"].patient_id = "none"

\* C20: the slot a request reserves for the number n is the slot at position
\* n of the list displayed when the doctor was selected, also when another
\* booking has changed the doctor's open slots since.
C20_ReservedSlotIsTheDisplayedOne ==
    [][\A s \in DOMAIN store.time_slots :
          (/\ last'.response = "appointment_booked"
           /\ store.time_slots[s].patient_id # last'.user
           /\ store'.time_slots[s].patient_id = last'.user)
             => LET n == IntOf[UserMessage[last'.query]].value
                IN  /\ n \in 1..Len(displayed)
                    /\ displayed[n] = s]_vars

\* Slots s1 and s3 were displayed as 1 and 2; s1 went to another client, and
\* the message "1" reserved s3
C20_Witness ==
    /\ displayed = <<"s1", "s3">>
    /\ last.query = (* 1 *) <<"1">>
    /\ last.response = "appointment_booked"
    /\ store.time_slots["s1"].patient_id = "none"
    /\ store.time_slots["s1"].status = "booked"
    /\ store.time_slots["s3"].patient_id = "p1"

\* The general conversation classified the message of the last request as a
\* prescription check (line 501)
ClassifiedAsPrescriptionCheck ==
    /\ last.llm
    /\ last.answer \in Answers
    /\ Get(ChatbotResponse[UserMessage[last.query]][last.answer],
           "check_prescriptions")

\* C21: the handler calls itself once when the general conversation
\* classifies a message as a prescription check, and never otherwise or
\* deeper; when no call fails, that request is answered and ends in stage
\* activate_reminders with a non-empty pending list or in stage
\* waiting_for_exit; and after an answered request the stage is never
\* check_inactive_appointments.
C21_PrescriptionCheckIsTransient ==
    /\ last.depth = IF ClassifiedAsPrescriptionCheck THEN 1 ELSE 0
    /\ (ClassifiedAsPrescriptionCheck /\ fault = NoFault) =>
           /\ last.status = 200
           /\ \/ /\ conversation_state.stage = "activate_reminders"
                 /\ conversation_state.prescriptions # <<>>
              \/ conversation_state.stage = "waiting_for_exit"
    /\ last.status = 200 =>
           conversation_state.stage # "check_inactive_appointments"

\* A check that failed left the stage check_inactive_appointments; the next
\* message was answered by the check itself, which found two prescriptions
C21_Witness ==
    /\ last.stage = "check_inactive_appointments"
    /\ last.status = 200
    /\ ~last.llm
    /\ conversation_state.stage = "activate_reminders"
    /\ Len(conversation_state.prescriptions) = 2

\* A classified message ended its request in stage waiting_for_exit
C21_WitnessWaiting ==
    /\ ClassifiedAsPrescriptionCheck
    /\ last.depth = 1
    /\ conversation_state.stage = "waiting_for_exit"

\* The inactive appointments of a patient that none of them is later than
LatestInactiveAppointments(patient) ==
    {a \in DOMAIN Appointment :
        /\ Appointment[a].patient_id = patient
        /\ ~Appointment[a].is_active
        /\ \A b \in DOMAIN Appointment :
               (Appointment[b].patient_id = patient /\ ~Appointment[b].is_active)
                   => Appointment[b].appointment_date
                          <= Appointment[a].appointment_date}

\* The prescriptions a patient is to be offered: the patient's own, of the
\* doctor of the latest inactive appointment, active, with no ACTIVE reminder
ToBeOffered(db, patient) ==
    {p \in DOMAIN db.prescriptions :
        /\ db.prescriptions[p].patient_id = patient
        /\ \E a \in LatestInactiveAppointments(patient) :
               db.prescriptions[p].doctor_id = Appointment[a].doctor_id
        /\ db.prescriptions[p].is_active
        /\ \A r \in DOMAIN db.reminders :
               db.reminders[r].prescription_id = p
                   => db.reminders[r].status # "active"}

\* C22: when the prescription check answers a request, it stores a pending
\* list exactly when the requesting patient has prescriptions to be offered,
\* and the list names each of them once and nothing else.
C22_PendingListIsWhatIsToBeOffered ==
    [][last'.status = 200 /\ last'.response \in PrescriptionReplies
          /\ "select_appointment" \in last'.calls
       => LET offered == ToBeOffered(store, last'.user)
              pending_list == conversation_state'.prescriptions
          IN  IF offered = {}
              THEN last'.response # "found_prescriptions"
              ELSE /\ last'.response = "found_prescriptions"
                   /\ conversation_state'.stage = "activate_reminders"
                   /\ Len(pending_list) = Cardinality(offered)
                   /\ {pending_list[i].prescription_id :
                           i \in 1..Len(pending_list)} = offered]_vars

\* Prescription rx1 is active and has an active reminder: the list built for
\* patient p1 names rx2 only
C22_Witness ==
    /\ last.response = "found_prescriptions"
    /\ last.user = "p1"
    /\ store.prescriptions["rx1"].is_active
    /\ store.prescriptions["rx1"].doctor_id = "d1"
    /\ store.reminders["r1"].status = "active"
    /\ Len(conversation_state.prescriptions) = 1
    /\ conversation_state.prescriptions[1].prescription_id = "rx2"

\* A patient sends an affirmative word in stage activate_reminders while
\* prescriptions are pending
AffirmativeWithPending ==
    /\ conversation_state.stage = "activate_reminders"
    /\ last'.stage = "activate_reminders"
    /\ last'.user \in Patients
    /\ lower(UserMessage[last'.query]) \in affirmative_responses
    /\ conversation_state.prescriptions # <<>>

\* The first pending prescription leaves the list
FirstLeavesTheList ==
    conversation_state'.prescriptions = Tail(conversation_state.prescriptions)

\* The first pending prescription is activated: its reminders are ACTIVE, it
\* is inactive and it is the active prescription id; the stage is
\* update_reminder_prompt; no other row changes
FirstIsActivated ==
    LET first == conversation_state.prescriptions[1].prescription_id
    IN  /\ last'.status = 200
        /\ conversation_state'.stage = "update_reminder_prompt"
        /\ conversation_state'.prescription_id = first
        /\ \A r \in DOMAIN store.reminders :
               store'.reminders[r] =
                   IF store.reminders[r].prescription_id = first
                   THEN [store.reminders[r] EXCEPT !.status = "active"]
                   ELSE store.reminders[r]
        /\ \A p \in DOMAIN store.prescriptions :
               store'.prescriptions[p] =
                   IF p = first
                   THEN [store.prescriptions[p] EXCEPT !.is_active = FALSE]
                   ELSE store.prescriptions[p]
        /\ store'.time_slots = store.time_slots
        /\ store'.reminder_times = store.reminder_times

\* The request reported that the activation failed, in its reply or with
\* HTTP 500
ActivationFailed ==
    \/ last'.response = "activation_issue"
    \/ last'.status = 500

ActivationRaisesHTTPError ==
    \/ fault' = [call |-> "activate_reminders_for_prescription",
                 raises |-> "HTTPException"]
    \/ /\ fault' = NoFault
       /\ \A r \in DOMAIN store.reminders :
              store.reminders[r].prescription_id
                  # conversation_state.prescriptions[1].prescription_id

\* C24: when the activation of the chosen prescription fails with an HTTP
\* error, the request is answered with status 200 by the reply that reports
\* the issue with the detail of that error, the stage becomes general, and
\* no row of the store changes: the prescription is not marked inactive.
C24_FailedActivationIsReported ==
    [][AffirmativeWithPending /\ ActivationRaisesHTTPError =>
           /\ last'.status = 200
           /\ last'.response = "activation_issue"
           /\ last'.detail = IF fault' = NoFault THEN NO_REMINDERS_FOUND
                             ELSE detail_of(fault'.call)
           /\ conversation_state'.stage = "general"
           /\ store' = store]_vars

\* The activation of rx1 raised an HTTP error: the reply reports it, the
\* stage is general and rx1 is still active
C24_Witness ==
    /\ fault = [call |-> "activate_reminders_for_prescription",
                raises |-> "HTTPException"]
    /\ last.stage = "activate_reminders"
    /\ last.status = 200
    /\ last.response = "activation_issue"
    /\ last.detail = "activate_reminders_for_prescription"
    /\ conversation_state.stage = "general"
    /\ store.prescriptions["rx1"].is_active
    /\ store.reminders["r1"].status = "inactive"
    /\ conversation_state.prescriptions
           = <<[prescription_id |-> "rx2", details |-> "ibuprofen"]>>

\* In update_reminder_prompt, a message of a patient, not one of `excluded`:
\* an affirmative word moves the stage to collect_new_reminder_times; a
\* negative word moves it to activate_reminders when prescriptions are
\* pending and to general when none is; any other message leaves the stage;
\* in each case the store and every payload are unchanged.
AnswersTheUpdatePrompt(excluded) ==
    LET word == lower(UserMessage[last'.query])
    IN  (/\ conversation_state.stage = "update_reminder_prompt"
         /\ last'.user \in Patients
         /\ UserMessage[last'.query] \notin excluded) =>
            /\ last'.status = 200
            /\ store' = store
            /\ conversation_state' =
                   Put(conversation_state, "stage",
                       IF word \in affirmative_responses
                       THEN "collect_new_reminder_times"
                       ELSE IF word \in negative_responses
                       THEN IF conversation_state.prescriptions # <<>>
                            THEN "activate_reminders"
                            ELSE "general"
                       ELSE "update_reminder_prompt")

\* C25 as stated: every message in stage update_reminder_prompt is handled
\* so.
C25_UpdatePrompt == [][AnswersTheUpdatePrompt({})]_vars

\* C25, amended: every message in stage update_reminder_prompt that is not
\* "reset" or "start over" is handled so.
C25_UpdatePromptButReset == [][AnswersTheUpdatePrompt(reset_words)]_vars

\* The second of two prescriptions was activated and "no" answered the
\* update prompt: nothing is pending and the stage is general
C25_Witness ==
    /\ last.stage = "update_reminder_prompt"
    /\ last.query = (* no *) <<"n","o">>
    /\ last.response = "all_prescriptions_processed"
    /\ conversation_state.stage = "general"
    /\ conversation_state.prescriptions = <<>>
    /\ activated = <<"rx1", "rx2">>

\* A patient sends a message, not one of `excluded`, in stage
\* collect_new_reminder_times
SendsNewTimes(excluded) ==
    /\ conversation_state.stage = "collect_new_reminder_times"
    /\ last'.user \in Patients
    /\ UserMessage[last'.query] \notin excluded

\* Either nothing is rewritten and the conversation state is unchanged, or
\* the times of the active prescription, and no others, are replaced by the
\* parsed times in the order given and the stage becomes activate_reminders
\* when prescriptions are pending and general otherwise.
RewritesAllOrNothing(all) ==
    IF ~all
    THEN /\ store' = store
         /\ conversation_state' = conversation_state
    ELSE /\ store' =
                [store EXCEPT
                    !.reminder_times[conversation_state.prescription_id] =
                        NewTimes[UserMessage[last'.query]].new_times]
         /\ conversation_state' =
                Put(conversation_state, "stage",
                    IF conversation_state.prescriptions # <<>>
                    THEN "activate_reminders" ELSE "general")

\* C26 as stated: in stage collect_new_reminder_times, a message of which an
\* item does not parse rewrites nothing and leaves the stage and the
\* payloads; a message whose items all parse rewrites the times of the
\* active prescription once, in the order given, and moves the stage.
C26_AllOrNothing ==
    [][SendsNewTimes({}) =>
           RewritesAllOrNothing(NewTimes[UserMessage[last'.query]].ok)]_vars

\* C26, amended: so does every message but "reset" and "start over", and a
\* message whose items all parse rewrites nothing and leaves the stage when
\* the rewriting call fails.
C26_AllOrNothingButResetOrFailure ==
    [][SendsNewTimes(reset_words) =>
           RewritesAllOrNothing(/\ NewTimes[UserMessage[last'.query]].ok
                                /\ fault' = NoFault)]_vars

\* The second item of the message did not parse: the times of the active
\* prescription are those of the initial store and the stage is unchanged
C26_Witness ==
    /\ last.stage = "collect_new_reminder_times"
    /\ last.query = (* 09:00 am, soon *) <<"0","9",":","0","0"," ","a","m",","," ","s","o","o","n">>
    /\ last.response = "times_error"
    /\ conversation_state.stage = "collect_new_reminder_times"
    /\ store.reminder_times[conversation_state.prescription_id]
           = <<[hour |-> 8, minute |-> 0]>>

\* Both items parsed: the times of the last prescription are rewritten in
\* the order given and the flow is over
C26_WitnessRewritten ==
    /\ last.stage = "collect_new_reminder_times"
    /\ last.query = (* 09:00 am, 1:30 pm *) <<"0","9",":","0","0"," ","a","m",","," ","1",":","3","0"," ","p","m">>
    /\ last.response = "times_updated_all_processed"
    /\ conversation_state.stage = "general"
    /\ conversation_state.prescription_id = "rx2"
    /\ store.reminder_times["rx2"]
           = <<[hour |-> 9, minute |-> 0], [hour |-> 13, minute |-> 30]>>
    /\ store.reminder_times["rx1"] = <<[hour |-> 8, minute |-> 0]>>

\* C27: whenever the stage is update_reminder_prompt or
\* collect_new_reminder_times, the active prescription id is set, it is the
\* prescription whose reminders were activated last, and it is not pending.
C27_ActivePrescriptionIsTheLastActivated ==
    conversation_state.stage
            \in {"update_reminder_prompt", "collect_new_reminder_times"} =>
        /\ "prescription_id" \in DOMAIN conversation_state
        /\ activated # <<>>
        /\ conversation_state.prescription_id = activated[Len(activated)]
        /\ \A i \in 1..Len(conversation_state.prescriptions) :
               conversation_state.prescriptions[i].prescription_id
                   # conversation_state.prescription_id

\* After the second activation the user agreed to give new times: the
\* active prescription is the second one
C27_Witness ==
    /\ conversation_state.stage = "collect_new_reminder_times"
    /\ conversation_state.prescription_id = "rx2"
    /\ activated = <<"rx1", "rx2">>
    /\ last.stage = "update_reminder_prompt"
    /\ last.response = "provide_new_times"

\* The ids of a pending list, in its order
IdsOf(prescriptions) ==
    [i \in 1..Len(prescriptions) |-> prescriptions[i].prescription_id]

\* Every pending prescription has a reminder to activate: no activation of
\* the flow fails
EveryPendingHasAReminder ==
    \A i \in 1..Len(conversation_state.prescriptions) :
        \E r \in DOMAIN store.reminders :
            store.reminders[r].prescription_id
                = conversation_state.prescriptions[i].prescription_id

\* C28: while the user follows the reminder flow, the pending list never
\* grows; when no activation fails, the prescriptions activated so far
\* followed by the pending ones stay the same sequence, so that each listed
\* prescription is activated once, in listed order, and nothing else is;
\* and from stage activate_reminders the flow reaches stage general with
\* nothing pending.
C28_ReminderFlowTerminates ==
    /\ [][conversation_state.stage \in FlowStages =>
              /\ Len(conversation_state'.prescriptions)
                     <= Len(conversation_state.prescriptions)
              /\ EveryPendingHasAReminder =>
                     activated' \o IdsOf(conversation_state'.prescriptions)
                         = activated \o IdsOf(conversation_state.prescriptions)
         ]_vars
    /\ (conversation_state.stage = "activate_reminders")
           ~> (/\ conversation_state.stage = "general"
               /\ "prescriptions" \in DOMAIN conversation_state
               /\ conversation_state.prescriptions = <<>>)

\* A flow of two prescriptions is over: both were activated, in listed
\* order, the times of the second were rewritten, and the stage is general
C28_Witness ==
    /\ last.stage = "collect_new_reminder_times"
    /\ conversation_state.stage = "general"
    /\ conversation_state.prescriptions = <<>>
    /\ activated = <<"rx1", "rx2">>
    /\ ~store.prescriptions["rx1"].is_active
    /\ ~store.prescriptions["rx2"].is_active

\* In waiting_for_exit, a reset leaves the stage for general; an exit word
\* leaves it for the stage labelled "reset"; every other message of a
\* patient leaves the conversation state as it is; none of them calls the
\* completion service or changes the store.
LeavesOnExitWordOrReset ==
    LET user_message == UserMessage[last'.query]
    IN  (conversation_state.stage = "waiting_for_exit"
             /\ last'.user \in Patients) =>
            /\ last'.status = 200
            /\ ~last'.llm
            /\ store' = store
            /\ IF user_message \in reset_words
               THEN conversation_state'.stage = "general"
               ELSE IF lower(user_message) \in exit_words
               THEN conversation_state' =
                        Put(conversation_state, "stage", "reset")
               ELSE conversation_state' = conversation_state

\* In the stage an exit word leaves, a message of a patient that is no
\* reset gets the reply, makes the calls and leaves the store and the
\* payloads that it gets, makes and leaves in stage general; the stage it
\* leaves is the same too, or the stage it started in.
NextIsGeneralConversation ==
    (conversation_state.stage = "reset"
         /\ last'.user \in Patients
         /\ UserMessage[last'.query] \notin reset_words) =>
        LET result == chat_with_bot(Put(conversation_state, "stage", "general"),
                                    [store EXCEPT !.fault = fault'],
                                    last'.user, last'.query, last'.answer)
        IN  /\ last'.llm
            /\ result.llm
            /\ result.status = last'.status
            /\ result.response = last'.response
            /\ result.calls = last'.calls
            /\ [result.db EXCEPT !.fault = NoFault] = store'
            /\ conversation_state' =
                   IF result.cs.stage = "general"
                   THEN Put(result.cs, "stage", "reset")
                   ELSE result.cs

\* C29: in stage waiting_for_exit only an exit word or a reset leaves the
\* stage, and any other message changes nothing and makes no completion
\* call; after an exit word, the next message that is no reset is handled as
\* general conversation.
C29_WaitingForExit ==
    [][LeavesOnExitWordOrReset /\ NextIsGeneralConversation]_vars

\* After an exit word, a message was answered by the general conversation
C29_Witness ==
    /\ last.stage = "reset"
    /\ last.llm
    /\ last.response = "chatbot_answer"
    /\ conversation_state.stage = "reset"

\* The request that resumes in this step was suspended when a reset was
\* answered
ResumesAfterAReset ==
    /\ suspended # NotSuspended
    /\ suspended.reset_answered
    /\ suspended' = NotSuspended

\* C30: a request that was suspended at a store call when a reset was
\* answered does not, when it resumes, change the stage to
\* awaiting_slot_selection, booking_confirmed, activate_reminders or
\* update_reminder_prompt, and if it reserves a slot it is answered with the
\* confirmation, not with HTTP 500.
C30_AnsweredResetIsNotUndone ==
    [][ResumesAfterAReset =>
           /\ conversation_state'.stage # conversation_state.stage =>
                  conversation_state'.stage
                      \notin {"awaiting_slot_selection", "booking_confirmed",
                              "activate_reminders", "update_reminder_prompt"}
           /\ store'.time_slots # store.time_slots =>
                  /\ last'.status = 200
                  /\ last'.response = "appointment_booked"]_vars

\* A slot request was suspended at line 174, a reset was answered, and the
\* request resumed: the slot is reserved for its sender, the stage is
\* booking_confirmed, no doctor is selected and the answer was HTTP 500
C30_Witness ==
    /\ last.stage = "awaiting_slot_selection"
    /\ last.user = "p1"
    /\ last.status = 500
    /\ conversation_state.stage = "booking_confirmed"
    /\ "selected_doctor" \notin DOMAIN conversation_state
    /\ store.time_slots["s1"].patient_id = "p1"
    /\ suspended = NotSuspended

\* A doctor request was suspended at line 91, a reset was answered, and the
\* request resumed: the stage is awaiting_slot_selection again
C30_WitnessDoctor ==
    /\ last.stage = "awaiting_doctor_selection"
    /\ last.response = "available_time_slots"
    /\ previous.response = "none"
    /\ conversation_state.stage = "awaiting_slot_selection"
    /\ "doctors" \notin DOMAIN conversation_state
    /\ suspended = NotSuspended

====
